---- MODULE Spec2Model ----
(***************************************************************************)
(* Cursor pagination and streaming aggregation of mssql-mcp-server.        *)
(*                                                                         *)
(* SQL text, JSON text and cursor tokens are modelled as strings and are   *)
(* processed character by character, as the JavaScript does.  The SQL      *)
(* Server behind executeQuery is modelled by a small T-SQL parser and      *)
(* evaluator over one table.                                               *)
(***************************************************************************)
EXTENDS Integers, Sequences, FiniteSets, TLC

(***************************************************************************)
(* Strings                                                                 *)
(***************************************************************************)

\* s[i] as a one-character string ("" outside the string)
Ch(s, i) == IF i >= 1 /\ i <= Len(s) THEN SubSeq(s, i, i) ELSE ""

\* s.substring(i-1): the text from position i to the end
From(s, i) == SubSeq(s, i, Len(s))

\* the printable ASCII characters in code order: code 32 .. 95 and 97 .. 126
\* (code 96, the backquote, occurs in no text of the model)
PrintableLow == " !\"#$%&'()*+,-./0123456789:;<=>?@ABCDEFGHIJKLMNOPQRSTUVWXYZ[\\]^_"
PrintableHigh == "abcdefghijklmnopqrstuvwxyz{|}~"

UpperCase == "ABCDEFGHIJKLMNOPQRSTUVWXYZ"
LowerCase == "abcdefghijklmnopqrstuvwxyz"
Digits == "0123456789"

\* position of the first occurrence of the one-character string c in s, 0 when absent
IndexIn(c, s) ==
    IF \E i \in 1..Len(s) : Ch(s, i) = c
    THEN CHOOSE i \in 1..Len(s) : Ch(s, i) = c /\ \A j \in 1..(i - 1) : Ch(s, j) # c
    ELSE 0

\* the characters of s as a set
CharsOf(s) == {Ch(s, i) : i \in 1..Len(s)}
UpperSet == CharsOf(UpperCase)
LowerSet == CharsOf(LowerCase)
DigitSet == CharsOf(Digits)

IsUpper(c) == c \in UpperSet
IsLower(c) == c \in LowerSet
IsDigit(c) == c \in DigitSet
\* \w of a JavaScript regular expression
IsWordChar(c) == IsUpper(c) \/ IsLower(c) \/ IsDigit(c) \/ c = "_"
\* \s of a JavaScript regular expression (the white space that occurs in the inputs)
IsSpace(c) == c \in {" ", "\t", "\n", "\r"}

LowerChar(c) == IF IsUpper(c) THEN Ch(LowerCase, IndexIn(c, UpperCase)) ELSE c

\* String.prototype.toLowerCase (the text is lowered half by half)
RECURSIVE toLowerCase(_)
toLowerCase(s) ==
    IF Len(s) <= 1 THEN LowerChar(s)
    ELSE toLowerCase(SubSeq(s, 1, Len(s) \div 2)) \o toLowerCase(From(s, Len(s) \div 2 + 1))

\* s.startsWith(pat, i-1)
StartsAt(s, pat, i) ==
    /\ i >= 1
    /\ i + Len(pat) - 1 <= Len(s)
    /\ SubSeq(s, i, i + Len(pat) - 1) = pat

\* String.prototype.includes
includes(s, pat) == \E i \in 1..(Len(s) + 1) : StartsAt(s, pat, i)

\* String.prototype.trim
RECURSIVE TrimLeft(_)
TrimLeft(s) == IF s # "" /\ IsSpace(Ch(s, 1)) THEN TrimLeft(From(s, 2)) ELSE s
RECURSIVE TrimRight(_)
TrimRight(s) ==
    IF s # "" /\ IsSpace(Ch(s, Len(s))) THEN TrimRight(SubSeq(s, 1, Len(s) - 1)) ELSE s
trim(s) == TrimRight(TrimLeft(s))

\* the first position >= i of s that holds no white space (Len(s)+1 at the end)
RECURSIVE SkipSpace(_, _)
SkipSpace(s, i) == IF i <= Len(s) /\ IsSpace(Ch(s, i)) THEN SkipSpace(s, i + 1) ELSE i

(***************************************************************************)
(* JavaScript values: numbers, strings, null, booleans, undefined          *)
(***************************************************************************)

Num(n) == [t |-> "num", n |-> n, s |-> ""]
Str(s) == [t |-> "str", n |-> 0, s |-> s]
Bool(b) == [t |-> "bool", n |-> IF b THEN 1 ELSE 0, s |-> ""]
Null == [t |-> "null", n |-> 0, s |-> ""]
Undefined == [t |-> "undef", n |-> 0, s |-> ""]

\* row[field]: undefined when the row has no such column
Get(row, field) == IF field \in DOMAIN row THEN row[field] ELSE Undefined

\* !value of JavaScript
Falsy(v) ==
    \/ v.t \in {"null", "undef"}
    \/ v.t = "num" /\ v.n = 0
    \/ v.t = "str" /\ v.s = ""
    \/ v.t = "bool" /\ v.n = 0

(***************************************************************************)
(* JSON.stringify and JSON.parse for cursor objects                        *)
(***************************************************************************)

\* the body of a JSON string literal: quote, backslash and control characters escaped
RECURSIVE JsonEscape(_)
JsonEscape(s) ==
    IF Len(s) <= 1
    THEN IF s = "\"" THEN "\\\""
         ELSE IF s = "\\" THEN "\\\\"
         ELSE IF s = "\n" THEN "\\n"
         ELSE IF s = "\t" THEN "\\t"
         ELSE IF s = "\r" THEN "\\r"
         ELSE s
    ELSE JsonEscape(SubSeq(s, 1, Len(s) \div 2)) \o JsonEscape(From(s, Len(s) \div 2 + 1))

JsonQuote(s) == "\"" \o JsonEscape(s) \o "\""

\* JSON.stringify of a scalar
JsonScalar(v) ==
    IF v.t = "num" THEN ToString(v.n)
    ELSE IF v.t = "str" THEN JsonQuote(v.s)
    ELSE IF v.t = "bool" THEN (IF v.n = 1 THEN "true" ELSE "false")
    ELSE "null"

\* JSON.stringify({field, value, operator}); a member whose value is undefined is left out
JsonStringifyCursor(field, value, operator) ==
    "{\"field\":" \o JsonQuote(field)
        \o (IF value.t = "undef" THEN "" ELSE ",\"value\":" \o JsonScalar(value))
        \o ",\"operator\":" \o JsonQuote(operator) \o "}"

\* Results of the parsing operators: ok, the position after the parsed text, and the value
ParseFail == [ok |-> FALSE, next |-> 0, v |-> Undefined]
ParseOk(next, v) == [ok |-> TRUE, next |-> next, v |-> v]

\* the characters of a string literal from position i (after the opening quote) up to the
\* closing quote; acc is the text read so far
RECURSIVE ParseStringBody(_, _, _)
ParseStringBody(s, i, acc) ==
    LET c == Ch(s, i) IN
    IF c = "" \/ c \in {"\n", "\t", "\r", "\f"} THEN ParseFail
    ELSE IF c = "\"" THEN ParseOk(i + 1, Str(acc))
    ELSE IF c = "\\"
         THEN LET d == Ch(s, i + 1) IN
              IF d \in {"\"", "\\", "/"} THEN ParseStringBody(s, i + 2, acc \o d)
              ELSE IF d = "n" THEN ParseStringBody(s, i + 2, acc \o "\n")
              ELSE IF d = "t" THEN ParseStringBody(s, i + 2, acc \o "\t")
              ELSE IF d = "r" THEN ParseStringBody(s, i + 2, acc \o "\r")
              ELSE ParseFail
    ELSE ParseStringBody(s, i + 1, acc \o c)

\* the digits from position i; acc is the number read so far
RECURSIVE ParseDigits(_, _, _)
ParseDigits(s, i, acc) ==
    IF IsDigit(Ch(s, i))
    THEN ParseDigits(s, i + 1, acc * 10 + (IndexIn(Ch(s, i), Digits) - 1))
    ELSE [next |-> i, n |-> acc]

\* a JSON integer at position i: -? (0 | [1-9][0-9]*)
SignedNumber(s, neg, j, d) ==
    IF ~IsDigit(Ch(s, j)) THEN ParseFail
    ELSE IF Ch(s, j) = "0" /\ d.next > j + 1 THEN ParseFail
    ELSE IF Ch(s, d.next) \in {".", "e", "E"} THEN ParseFail
    ELSE ParseOk(d.next, Num(IF neg THEN 0 - d.n ELSE d.n))

ParseNumber(s, i) ==
    IF Ch(s, i) = "-" THEN SignedNumber(s, TRUE, i + 1, ParseDigits(s, i + 1, 0))
    ELSE SignedNumber(s, FALSE, i, ParseDigits(s, i, 0))

\* a JSON scalar at position i
ParseScalar(s, i) ==
    LET c == Ch(s, i) IN
    IF c = "\"" THEN ParseStringBody(s, i + 1, "")
    ELSE IF c = "-" \/ IsDigit(c) THEN ParseNumber(s, i)
    ELSE IF StartsAt(s, "null", i) THEN ParseOk(i + 4, Null)
    ELSE IF StartsAt(s, "true", i) THEN ParseOk(i + 4, Bool(TRUE))
    ELSE IF StartsAt(s, "false", i) THEN ParseOk(i + 5, Bool(FALSE))
    ELSE ParseFail

\* The members of an object from position i (after "{" or ","); obj holds the members read
\* so far as a function from key to value (a repeated key keeps the last value).
RECURSIVE ParseMembers(_, _, _)
MembersFail(obj) == [ok |-> FALSE, next |-> 0, obj |-> obj]

\* behind a member: "}" ends the object, "," leads to the next member
MemberEnd(s, e0, obj2) ==
    IF Ch(s, e0) = "}" THEN [ok |-> TRUE, next |-> e0 + 1, obj |-> obj2]
    ELSE IF Ch(s, e0) = "," THEN ParseMembers(s, e0 + 1, obj2)
    ELSE MembersFail(obj2)

\* the member key: val is kept in obj
MemberValue(s, obj, key, val) ==
    IF ~val.ok THEN MembersFail(obj)
    ELSE MemberEnd(s, SkipSpace(s, val.next),
                   (key.v.s :> val.v) @@ [k \in DOMAIN obj \ {key.v.s} |-> obj[k]])

\* behind the key of a member: the colon at c0 and the value
MemberColon(s, obj, key, c0) ==
    MemberValue(s, obj, key,
                IF Ch(s, c0) = ":" THEN ParseScalar(s, SkipSpace(s, c0 + 1)) ELSE ParseFail)

MemberKey(s, obj, key) ==
    IF ~key.ok THEN MembersFail(obj)
    ELSE MemberColon(s, obj, key, SkipSpace(s, key.next))

MemberAt(s, k0, obj) ==
    MemberKey(s, obj, IF Ch(s, k0) = "\"" THEN ParseStringBody(s, k0 + 1, "") ELSE ParseFail)

ParseMembers(s, i, obj) == MemberAt(s, SkipSpace(s, i), obj)

\* JSON.parse for the texts that occur as cursors: an object of scalar members, or a scalar.
\* ok = FALSE stands for the SyntaxError that JSON.parse throws; isObj tells an object from a
\* scalar; obj maps the member names to their values.
EmptyObj == [k \in {} |-> Undefined]
JsonThrow == [ok |-> FALSE, isObj |-> FALSE, isNull |-> FALSE, obj |-> EmptyObj]

\* the text must end behind the value
ParsedObject(s, m) ==
    IF m.ok /\ SkipSpace(s, m.next) = Len(s) + 1
    THEN [ok |-> TRUE, isObj |-> TRUE, isNull |-> FALSE, obj |-> m.obj]
    ELSE JsonThrow

ParsedScalar(s, v) ==
    IF v.ok /\ SkipSpace(s, v.next) = Len(s) + 1
    THEN [ok |-> TRUE, isObj |-> FALSE, isNull |-> v.v.t = "null", obj |-> EmptyObj]
    ELSE JsonThrow

\* the value that begins at position i; j is the position behind a "{" at i
JsonValueAt(s, i, j) ==
    IF Ch(s, i) = "{"
    THEN IF Ch(s, j) = "}"
         THEN ParsedObject(s, [ok |-> TRUE, next |-> j + 1, obj |-> EmptyObj])
         ELSE ParsedObject(s, ParseMembers(s, i + 1, EmptyObj))
    ELSE ParsedScalar(s, ParseScalar(s, i))

JsonParse(s) == JsonValueAt(s, SkipSpace(s, 1), SkipSpace(s, SkipSpace(s, 1) + 1))

(***************************************************************************)
(* Buffer.from(text).toString('base64') and                                *)
(* Buffer.from(token, 'base64').toString('utf8')                           *)
(***************************************************************************)

Base64Alphabet == "ABCDEFGHIJKLMNOPQRSTUVWXYZabcdefghijklmnopqrstuvwxyz0123456789+/"

\* the UTF-8 byte of a character of the model's texts
CodeTable ==
    [c \in CharsOf(PrintableLow) \cup CharsOf(PrintableHigh) |->
        IF IndexIn(c, PrintableLow) > 0 THEN 31 + IndexIn(c, PrintableLow)
        ELSE 96 + IndexIn(c, PrintableHigh)]
CharCode(c) ==
    IF c \in DOMAIN CodeTable THEN CodeTable[c]
    ELSE IF c = "\t" THEN 9
    ELSE IF c = "\n" THEN 10
    ELSE IF c = "\r" THEN 13
    ELSE 12

\* the character of a byte; a byte that is no character of the model's texts becomes the
\* form feed, which stands for a character that JSON accepts nowhere
CodeChar(b) ==
    IF b >= 32 /\ b <= 95 THEN Ch(PrintableLow, b - 31)
    ELSE IF b >= 97 /\ b <= 126 THEN Ch(PrintableHigh, b - 96)
    ELSE IF b = 9 THEN "\t"
    ELSE IF b = 10 THEN "\n"
    ELSE IF b = 13 THEN "\r"
    ELSE "\f"

Sextet(n) == Ch(Base64Alphabet, n + 1)

\* three bytes become four characters; a last group of one or two bytes is padded with "="
\* (a longer text is encoded in two parts, the first a whole number of groups)
RECURSIVE Base64Encode(_)
Base64Encode(s) ==
    IF s = "" THEN ""
    ELSE IF Len(s) <= 3
    THEN LET n == Len(s)
             b1 == CharCode(Ch(s, 1))
             b2 == IF n >= 2 THEN CharCode(Ch(s, 2)) ELSE 0
             b3 == IF n >= 3 THEN CharCode(Ch(s, 3)) ELSE 0
             q == b1 * 65536 + b2 * 256 + b3
         IN Sextet(q \div 262144)
                \o Sextet((q \div 4096) % 64)
                \o (IF n >= 2 THEN Sextet((q \div 64) % 64) ELSE "=")
                \o (IF n >= 3 THEN Sextet(q % 64) ELSE "=")
    ELSE LET half == 3 * ((Len(s) + 5) \div 6) IN
         Base64Encode(SubSeq(s, 1, half)) \o Base64Encode(From(s, half + 1))

SextetTable == [c \in CharsOf(Base64Alphabet) |-> IndexIn(c, Base64Alphabet) - 1]

\* the sextets of a text: characters outside the alphabet are skipped
RECURSIVE Base64Sextets(_)
Base64Sextets(tok) ==
    IF Len(tok) <= 1
    THEN IF tok \in DOMAIN SextetTable THEN <<SextetTable[tok]>> ELSE <<>>
    ELSE Base64Sextets(SubSeq(tok, 1, Len(tok) \div 2))
             \o Base64Sextets(From(tok, Len(tok) \div 2 + 1))

\* four sextets become three bytes; a last group of two or three gives one or two bytes
\* (a longer sequence is decoded in two parts, the first a whole number of groups)
RECURSIVE SextetsToText(_)
SextetsToText(q) ==
    IF Len(q) < 2 THEN ""
    ELSE IF Len(q) <= 4
    THEN LET a == q[1]
             b == q[2]
             c == IF Len(q) >= 3 THEN q[3] ELSE 0
             d == IF Len(q) >= 4 THEN q[4] ELSE 0
             w == a * 262144 + b * 4096 + c * 64 + d
         IN CodeChar(w \div 65536)
                \o (IF Len(q) >= 3 THEN CodeChar((w \div 256) % 256) ELSE "")
                \o (IF Len(q) >= 4 THEN CodeChar(w % 256) ELSE "")
    ELSE LET half == 4 * ((Len(q) + 7) \div 8) IN
         SextetsToText(SubSeq(q, 1, half)) \o SextetsToText(SubSeq(q, half + 1, Len(q)))

\* the token is read up to its first "="
Base64Decode(tok) ==
    LET pad == IndexIn("=", tok)
        body == IF pad = 0 THEN tok ELSE SubSeq(tok, 1, pad - 1)
    IN SextetsToText(Base64Sextets(body))

(***************************************************************************)
(* Lib/pagination.mjs: cursors                                             *)
(***************************************************************************)

\* A cursor token, or null
NoCursor == [isNull |-> TRUE, tok |-> ""]
Token(t) == [isNull |-> FALSE, tok |-> t]
\* if (cursor): null and the empty string are falsy
CursorGiven(c) == ~c.isNull /\ c.tok # ""

\* Buffer.from(JSON.stringify(cursor)).toString('base64') for cursor = {field, value, operator}
EncodeCursor(field, value, operator) ==
    Token(Base64Encode(JsonStringifyCursor(field, value, operator)))

\* generateNextCursor with the operator ">=" in place of ">"
generateNextCursorInclusive(lastRow, hasRow, cursorField) ==
    IF ~hasRow \/ cursorField = "" THEN NoCursor
    ELSE IF Get(lastRow, cursorField).t = "undef" THEN NoCursor
    ELSE EncodeCursor(cursorField, Get(lastRow, cursorField), ">=")

\* generateNextCursor(lastRow, cursorField); hasRow is false for a lastRow of null
generateNextCursor(lastRow, hasRow, cursorField) ==
    IF ~hasRow \/ cursorField = "" THEN NoCursor
    ELSE IF Get(lastRow, cursorField).t = "undef" THEN NoCursor
    ELSE EncodeCursor(cursorField, Get(lastRow, cursorField), ">")

\* generatePrevCursor with the operator "<" in place of "<="
generatePrevCursorStrict(firstRow, hasRow, cursorField) ==
    IF ~hasRow \/ cursorField = "" THEN NoCursor
    ELSE IF Get(firstRow, cursorField).t = "undef" THEN NoCursor
    ELSE EncodeCursor(cursorField, Get(firstRow, cursorField), "<")

\* generatePrevCursor(firstRow, cursorField); hasRow is false for a firstRow of null
generatePrevCursor(firstRow, hasRow, cursorField) ==
    IF ~hasRow \/ cursorField = "" THEN NoCursor
    ELSE IF Get(firstRow, cursorField).t = "undef" THEN NoCursor
    ELSE EncodeCursor(cursorField, Get(firstRow, cursorField), "<=")

\* decodeCursor: the parsed JSON value, or null for no cursor and for text that is not JSON
decodeCursor(cursor) ==
    IF ~CursorGiven(cursor) THEN JsonThrow
    ELSE JsonParse(Base64Decode(cursor.tok))

\* member name of a parsed object, undefined when absent
Member(parsed, name) == IF parsed.ok /\ parsed.isObj THEN Get(parsed.obj, name) ELSE Undefined

(***************************************************************************)
(* Lib/pagination.mjs: the regular expressions                             *)
(***************************************************************************)

\* the least element of a non-empty set of integers, and the greatest
Least(S) == CHOOSE x \in S : \A y \in S : x <= y
Greatest(S) == CHOOSE x \in S : \A y \in S : x >= y

\* kw (in lower case) stands at position i of s, in any letter case
KeywordAt(s, kw, i) ==
    /\ i >= 1
    /\ i + Len(kw) - 1 <= Len(s)
    /\ toLowerCase(SubSeq(s, i, i + Len(kw) - 1)) = kw

\* \s+kw matches at position p: white space, then the keyword
SpaceThenKeyword(s, kw, p) == IsSpace(Ch(s, p)) /\ KeywordAt(s, kw, SkipSpace(s, p))

\* /\border\s+by\b/i.test(s)
HasOrderBy(s) ==
    \E i \in 1..Len(s) :
        /\ ~IsWordChar(Ch(s, i - 1))
        /\ KeywordAt(s, "order", i)
        /\ SpaceThenKeyword(s, "by", i + 5)
        /\ ~IsWordChar(Ch(s, SkipSpace(s, i + 5) + 2))

\* (?:\s+OFFSET|\s+FOR\s+JSON|\s+FOR\s+XML|\s*$) matches at position p
OrderByTail(s, p) ==
    \/ SpaceThenKeyword(s, "offset", p)
    \/ /\ SpaceThenKeyword(s, "for", p)
       /\ \/ SpaceThenKeyword(s, "json", SkipSpace(s, p) + 3)
          \/ SpaceThenKeyword(s, "xml", SkipSpace(s, p) + 3)
    \/ SkipSpace(s, p) = Len(s) + 1

\* ORDER\s+BY\s+ matches at position i; the result is the set of positions at which the
\* capture may start (after at least one white space character behind BY)
OrderByHead(s, i) ==
    IF KeywordAt(s, "order", i) /\ SpaceThenKeyword(s, "by", i + 5)
    THEN LET b == SkipSpace(s, i + 5) + 2 IN
         {c \in (b + 1)..SkipSpace(s, b) : c <= Len(s)}
    ELSE {}

\* the capture [^)]+? from c to e, followed by the tail
OrderByCapture(s, c, e) ==
    /\ e >= c
    /\ \A x \in c..e : Ch(s, x) # ")"
    /\ OrderByTail(s, e + 1)

\* s.match(/ORDER\s+BY\s+([^)]+?)(?:\s+OFFSET|\s+FOR\s+JSON|\s+FOR\s+XML|\s*$)/i):
\* the leftmost match; \s+ is greedy and the capture is lazy
NoMatch == [found |-> FALSE, capture |-> ""]
OrderByMatch(s) ==
    LET Ends(c) == {e \in c..Len(s) : OrderByCapture(s, c, e)}
        Starts(i) == {c \in OrderByHead(s, i) : Ends(c) # {}}
        At == {i \in 1..Len(s) : Starts(i) # {}}
    IN IF At = {} THEN NoMatch
       ELSE LET c == Greatest(Starts(Least(At)))
            IN [found |-> TRUE, capture |-> SubSeq(s, c, Least(Ends(c)))]

\* s.match(/SELECT\s+(.+?)\s+FROM/is): the leftmost match, the capture lazy
SelectMatch(s) ==
    LET Heads(i) == IF KeywordAt(s, "select", i) /\ IsSpace(Ch(s, i + 6))
                    THEN {c \in (i + 7)..SkipSpace(s, i + 6) : c <= Len(s)}
                    ELSE {}
        Ends(c) == {e \in c..Len(s) : SpaceThenKeyword(s, "from", e + 1)}
        Starts(i) == {c \in Heads(i) : Ends(c) # {}}
        At == {i \in 1..Len(s) : Starts(i) # {}}
    IN IF At = {} THEN NoMatch
       ELSE LET c == Greatest(Starts(Least(At)))
            IN [found |-> TRUE, capture |-> SubSeq(s, c, Least(Ends(c)))]

\* s.split(',') : the pieces between the commas
RECURSIVE SplitComma(_)
SplitComma(s) ==
    LET k == IndexIn(",", s) IN
    IF k = 0 THEN <<s>>
    ELSE <<SubSeq(s, 1, k - 1)>> \o SplitComma(From(s, k + 1))

\* s.split(/\s+/)[0] : the text before the first white space
RECURSIVE FirstWord(_)
FirstWord(s) ==
    IF s = "" \/ IsSpace(Ch(s, 1)) THEN "" ELSE Ch(s, 1) \o FirstWord(From(s, 2))

\* s.split(/\s+AS\s+|\s+/).pop() : the text behind the last white space
RECURSIVE LastWord(_)
LastWord(s) ==
    IF s = "" \/ IsSpace(Ch(s, Len(s))) THEN ""
    ELSE LastWord(SubSeq(s, 1, Len(s) - 1)) \o Ch(s, Len(s))

\* s.replace(/\[|\]/g, '')
RECURSIVE StripBrackets(_)
StripBrackets(s) ==
    IF Len(s) <= 1 THEN (IF s \in {"[", "]"} THEN "" ELSE s)
    ELSE StripBrackets(SubSeq(s, 1, Len(s) \div 2)) \o StripBrackets(From(s, Len(s) \div 2 + 1))

\* s.replace(/[^a-zA-Z0-9_]/g, '_')
RECURSIVE Sanitize(_)
Sanitize(s) ==
    IF s = "" THEN ""
    ELSE IF Len(s) = 1 THEN (IF IsWordChar(s) THEN s ELSE "_")
    ELSE Sanitize(SubSeq(s, 1, Len(s) \div 2)) \o Sanitize(From(s, Len(s) \div 2 + 1))

\* the first field of an ORDER BY clause, without direction and brackets
FirstOrderField(orderByClause) ==
    StripBrackets(FirstWord(trim(SplitComma(orderByClause)[1])))

(***************************************************************************)
(* Lib/pagination.mjs: extractDefaultCursorField and paginateQuery         *)
(***************************************************************************)

commonIdFields == <<"id", "ID", "Id", "key", "KEY", "Key", "primary_key", "PrimaryKey">>

\* the fields of the select list that are named as idField is, after cleaning
cleanField(f) == StripBrackets(LastWord(f))
MatchingFields(fields, idField) ==
    {i \in DOMAIN fields : toLowerCase(cleanField(fields[i])) = toLowerCase(idField)}

\* the first of the common id fields that the select list names, else "id"
IdFieldAmong(fields, hits) ==
    IF hits # {}
    THEN cleanField(fields[Least(MatchingFields(fields, commonIdFields[Least(hits)]))])
    ELSE "id"

IdFieldOf(fields) ==
    IdFieldAmong(fields, {k \in DOMAIN commonIdFields :
                              MatchingFields(fields, commonIdFields[k]) # {}})

TrimAll(parts) == [i \in DOMAIN parts |-> trim(parts[i])]

DefaultCursorField(orderByMatch, selectMatch) ==
    IF orderByMatch.found THEN FirstOrderField(trim(orderByMatch.capture))
    ELSE IF selectMatch.found /\ trim(selectMatch.capture) # "*"
    THEN IdFieldOf(TrimAll(SplitComma(trim(selectMatch.capture))))
    ELSE "id"

\* (variant: the default field whatever the statement says)
extractDefaultCursorFieldFixed(sql) == "id"

extractDefaultCursorField(sql) == DefaultCursorField(OrderByMatch(sql), SelectMatch(sql))

\* String(v) as a template literal inserts it
TemplateText(v) ==
    IF v.t = "str" THEN v.s
    ELSE IF v.t = "num" THEN ToString(v.n)
    ELSE IF v.t = "bool" THEN (IF v.n = 1 THEN "true" ELSE "false")
    ELSE IF v.t = "null" THEN "null"
    ELSE "undefined"

\* The cursor part of paginateQuery (the try block) runs to its end for the decoded cursor
\* d; it throws, and the catch leaves statement and parameters as they were, when the
\* token is not JSON, is JSON null, has no field or no value, or has a field that is no
\* string (field.replace is not a function).
CursorUsable(cursor, d) ==
    /\ CursorGiven(cursor)
    /\ d.ok
    /\ d.isObj
    /\ ~Falsy(Member(d, "field"))
    /\ Member(d, "value").t # "undef"
    /\ Member(d, "field").t = "str"

\* the predicate on fieldToUse appended to the statement, and the parameter it binds
PredicateOn(paginatedSql, fieldToUse, comparator, value) ==
    [sql |-> paginatedSql \o " "
                 \o (IF includes(toLowerCase(paginatedSql), "where") THEN "AND" ELSE "WHERE")
                 \o " [" \o fieldToUse \o "] " \o comparator
                 \o " @cursor_" \o Sanitize(fieldToUse),
     name |-> "cursor_" \o Sanitize(fieldToUse),
     value |-> value]

\* the statement with the predicate of the decoded cursor d appended
PredicateOf(paginatedSql, d, actualCursorField) ==
    PredicateOn(paginatedSql,
                IF Falsy(Member(d, "field")) THEN actualCursorField ELSE Member(d, "field").s,
                IF Falsy(Member(d, "operator")) THEN ">" ELSE TemplateText(Member(d, "operator")),
                Member(d, "value"))

\* the statement with the row bound appended unless it mentions offset or fetch
WithRowBound(paginatedSql, pageSize) ==
    IF ~includes(toLowerCase(paginatedSql), "offset") /\ ~includes(toLowerCase(paginatedSql), "fetch")
    THEN paginatedSql \o " OFFSET 0 ROWS FETCH NEXT " \o ToString(pageSize) \o " ROWS ONLY"
    ELSE paginatedSql

\* what paginateQuery returns when the cursor block ran to its end with pred
PaginatedWith(pred, pageSize, parameters, actualCursorField) ==
    [paginatedSql |-> WithRowBound(pred.sql, pageSize),
     parameters |-> (pred.name :> pred.value)
                        @@ [k \in DOMAIN parameters \ {pred.name} |-> parameters[k]],
     cursorField |-> actualCursorField]

\* the statement ordered: the cursor predicate if the cursor is usable, and the row bound
PaginateOrdered(ordered, actualCursorField, pageSize, cursor, parameters, d) ==
    IF CursorUsable(cursor, d)
    THEN PaginatedWith(PredicateOf(ordered, d, actualCursorField), pageSize, parameters,
                       actualCursorField)
    ELSE [paginatedSql |-> WithRowBound(ordered, pageSize),
          parameters |-> parameters,
          cursorField |-> actualCursorField]

\* the ORDER BY clause is appended unless the statement has one
PaginateBy(trimmed, hasOrderBy, actualCursorField, pageSize, cursor, parameters) ==
    PaginateOrdered(IF hasOrderBy THEN trimmed
                    ELSE trimmed \o " ORDER BY " \o actualCursorField \o " ASC",
                    actualCursorField, pageSize, cursor, parameters,
                    JsonParse(Base64Decode(cursor.tok)))

\* the cursor field: the first field of the statement's ORDER BY clause if no cursorField
\* is given, else cursorField, else defaultCursorField
PaginateTrimmed(trimmed, hasOrderBy, orderByMatch, cursorField, pageSize, cursor, parameters, defaultCursorField) ==
    PaginateBy(trimmed, hasOrderBy,
               IF hasOrderBy
               THEN IF orderByMatch.found /\ cursorField = ""
                    THEN FirstOrderField(trim(orderByMatch.capture))
                    ELSE cursorField
               ELSE IF cursorField # "" THEN cursorField ELSE defaultCursorField,
               pageSize, cursor, parameters)

PaginateStatement(trimmed, cursorField, pageSize, cursor, parameters, defaultCursorField) ==
    PaginateTrimmed(trimmed, HasOrderBy(trimmed), OrderByMatch(trimmed), cursorField, pageSize,
                    cursor, parameters, defaultCursorField)

\* paginateQuery(sql, {cursorField, pageSize, cursor, parameters, defaultCursorField});
\* a cursorField of "" stands for null and undefined
paginateQuery(sql, cursorField, pageSize, cursor, parameters, defaultCursorField) ==
    PaginateStatement(trim(sql), cursorField, pageSize, cursor, parameters, defaultCursorField)

(***************************************************************************)
(* The SQL Server behind request.query: tokens                             *)
(***************************************************************************)

\* a token: k is "w" (word: keyword, identifier or number), "b" (bracketed identifier),
\* "p" (@parameter), "s" (symbol) or "err" (text that is no token)
Tok(k, s) == [k |-> k, s |-> s]

\* the first position >= i of s that holds no character of a word
RECURSIVE WordEnd(_, _)
WordEnd(s, i) ==
    IF IsWordChar(Ch(s, i)) \/ Ch(s, i) = "." THEN WordEnd(s, i + 1) ELSE i

\* the tokens of s from position i
RECURSIVE Tokens(_, _)
Tokens(s, i) ==
    LET j == SkipSpace(s, i)
        c == Ch(s, j)
    IN IF c = "" THEN <<>>
       ELSE IF c = "["
            THEN LET close == IndexIn("]", From(s, j + 1)) IN
                 IF close = 0 THEN <<Tok("err", From(s, j))>>
                 ELSE <<Tok("b", SubSeq(s, j + 1, j + close - 1))>> \o Tokens(s, j + close + 1)
       ELSE IF c = "@"
            THEN <<Tok("p", SubSeq(s, j + 1, WordEnd(s, j + 1) - 1))>> \o Tokens(s, WordEnd(s, j + 1))
       ELSE IF IsWordChar(c)
            THEN <<Tok("w", SubSeq(s, j, WordEnd(s, j) - 1))>> \o Tokens(s, WordEnd(s, j))
       ELSE IF StartsAt(s, ">=", j) \/ StartsAt(s, "<=", j) \/ StartsAt(s, "<>", j)
            THEN <<Tok("s", SubSeq(s, j, j + 1))>> \o Tokens(s, j + 2)
       ELSE <<Tok("s", c)>> \o Tokens(s, j + 1)

ReservedWords == {"select", "from", "where", "and", "order", "by", "asc", "desc", "offset",
                  "rows", "fetch", "next", "only", "as", "insert", "into", "values", "update",
                  "set", "delete", "drop", "truncate", "table", "alter", "merge"}

\* token p is the keyword kw, in any letter case
Kw(toks, p, kw) == p <= Len(toks) /\ toks[p].k = "w" /\ toLowerCase(toks[p].s) = kw
\* token p is the symbol x
Sym(toks, p, x) == p <= Len(toks) /\ toks[p].k = "s" /\ toks[p].s = x

IsNumberWord(w) == w # "" /\ \A i \in 1..Len(w) : IsDigit(Ch(w, i))

\* token p names a column or a table
IsName(toks, p) ==
    /\ p <= Len(toks)
    /\ \/ toks[p].k = "b" /\ toks[p].s # ""
       \/ /\ toks[p].k = "w"
          /\ ~IsNumberWord(toks[p].s)
          /\ toLowerCase(toks[p].s) \notin ReservedWords

\* token p is an operand of a comparison: a column, a number or a parameter
IsOperand(toks, p) ==
    /\ p <= Len(toks)
    /\ \/ IsName(toks, p)
       \/ toks[p].k = "w" /\ IsNumberWord(toks[p].s)
       \/ toks[p].k = "p" /\ toks[p].s # ""

Comparators == {"=", "<>", "<", "<=", ">", ">="}

(***************************************************************************)
(* The SQL Server behind request.query: grammar                            *)
(***************************************************************************)

\* predicate {AND predicate} from token p
RECURSIVE ParseConds(_, _)
ParseConds(toks, p) ==
    IF IsOperand(toks, p) /\ p + 1 <= Len(toks) /\ toks[p + 1].k = "s"
          /\ toks[p + 1].s \in Comparators /\ IsOperand(toks, p + 2)
    THEN LET cond == [lhs |-> toks[p], op |-> toks[p + 1].s, rhs |-> toks[p + 2]] IN
         IF Kw(toks, p + 3, "and")
         THEN LET rest == ParseConds(toks, p + 4) IN
              [ok |-> rest.ok, next |-> rest.next, conds |-> <<cond>> \o rest.conds]
         ELSE [ok |-> TRUE, next |-> p + 3, conds |-> <<cond>>]
    ELSE [ok |-> FALSE, next |-> p, conds |-> <<>>]

\* column [ASC | DESC] {, column [ASC | DESC]} from token p
RECURSIVE ParseOrderItems(_, _)
ParseOrderItems(toks, p) ==
    IF IsName(toks, p)
    THEN LET desc == Kw(toks, p + 1, "desc")
             q == IF desc \/ Kw(toks, p + 1, "asc") THEN p + 2 ELSE p + 1
             item == [field |-> toks[p].s, desc |-> desc]
         IN IF Sym(toks, q, ",")
            THEN LET rest == ParseOrderItems(toks, q + 1) IN
                 [ok |-> rest.ok, next |-> rest.next, items |-> <<item>> \o rest.items]
            ELSE [ok |-> TRUE, next |-> q, items |-> <<item>>]
    ELSE [ok |-> FALSE, next |-> p, items |-> <<>>]

\* column {, column} from token p
RECURSIVE ParseColumns(_, _)
ParseColumns(toks, p) ==
    IF IsName(toks, p)
    THEN IF Sym(toks, p + 1, ",")
         THEN LET rest == ParseColumns(toks, p + 2) IN
              [ok |-> rest.ok, next |-> rest.next, cols |-> <<toks[p].s>> \o rest.cols]
         ELSE [ok |-> TRUE, next |-> p + 1, cols |-> <<toks[p].s>>]
    ELSE [ok |-> FALSE, next |-> p, cols |-> <<>>]

SyntaxError == [ok |-> FALSE, star |-> FALSE, cols |-> <<>>, table |-> "", conds |-> <<>>,
                order |-> <<>>, hasOffset |-> FALSE, offset |-> 0, hasFetch |-> FALSE, fetch |-> 0]

\* token p is a number and the tokens before and behind it are the keywords first, last
NumberBetween(toks, p, first, last) ==
    /\ Kw(toks, p - 1, first)
    /\ p <= Len(toks)
    /\ toks[p].k = "w" /\ IsNumberWord(toks[p].s)
    /\ Kw(toks, p + 1, last)

\* the number that token p spells
NumberAt(toks, p) == ParseDigits(toks[p].s, 1, 0).n

\* the statement whose clauses have been recognised, if nothing follows them
SelectParsed(toks, star, cols, conds, hasOrder, order, hasOffset, hasFetch, pEnd) ==
    IF /\ Kw(toks, 1, "select")
       /\ cols.ok
       /\ Kw(toks, cols.next, "from")
       /\ IsName(toks, cols.next + 1)
       /\ conds.ok
       /\ order.ok
       /\ (hasOffset => hasOrder)
       /\ pEnd = Len(toks) + 1
    THEN [ok |-> TRUE, star |-> star, cols |-> cols.cols, table |-> toks[cols.next + 1].s,
          conds |-> conds.conds, order |-> order.items,
          hasOffset |-> hasOffset,
          offset |-> IF hasOffset THEN NumberAt(toks, order.next + 1) ELSE 0,
          hasFetch |-> hasFetch,
          fetch |-> IF hasFetch THEN NumberAt(toks, order.next + 5) ELSE 0]
    ELSE SyntaxError

\* [OFFSET n ROWS [FETCH NEXT m ROWS ONLY]] behind the ORDER BY clause
SelectRowBound(toks, star, cols, conds, hasOrder, order, hasOffset) ==
    IF hasOffset /\ Kw(toks, order.next + 3, "fetch")
           /\ NumberBetween(toks, order.next + 5, "next", "rows")
           /\ Kw(toks, order.next + 7, "only")
    THEN SelectParsed(toks, star, cols, conds, hasOrder, order, TRUE, TRUE, order.next + 8)
    ELSE SelectParsed(toks, star, cols, conds, hasOrder, order, hasOffset, FALSE,
                      IF hasOffset THEN order.next + 3 ELSE order.next)

\* [ORDER BY items] behind the WHERE clause
SelectOrder(toks, star, cols, conds, hasOrder, order) ==
    SelectRowBound(toks, star, cols, conds, hasOrder, order,
                   NumberBetween(toks, order.next + 1, "offset", "rows"))

SelectOrderBy(toks, star, cols, conds, hasOrder) ==
    SelectOrder(toks, star, cols, conds, hasOrder,
                IF hasOrder THEN ParseOrderItems(toks, conds.next + 2)
                ELSE [ok |-> TRUE, next |-> conds.next, items |-> <<>>])

\* [WHERE predicates] behind the table
SelectWhere(toks, star, cols, conds) ==
    SelectOrderBy(toks, star, cols, conds,
                  Kw(toks, conds.next, "order") /\ Kw(toks, conds.next + 1, "by"))

SelectFrom(toks, star, cols) ==
    SelectWhere(toks, star, cols,
                IF Kw(toks, cols.next + 2, "where") THEN ParseConds(toks, cols.next + 3)
                ELSE [ok |-> TRUE, next |-> cols.next + 2, conds |-> <<>>])

SelectColumns(toks, star) ==
    SelectFrom(toks, star,
               IF star THEN [ok |-> TRUE, next |-> 3, cols |-> <<>>] ELSE ParseColumns(toks, 2))

\* SELECT (* | columns) FROM table [WHERE predicates] [ORDER BY items]
\*     [OFFSET n ROWS [FETCH NEXT m ROWS ONLY]]
\* The clauses are accepted in this order only, and OFFSET needs an ORDER BY clause.
ParseSelect(toks) == SelectColumns(toks, Sym(toks, 2, "*"))

\* the select inside the parentheses of a counting statement, if the rest is in place
CountOver(toks, n, inner) ==
    IF /\ n >= 13
       /\ Kw(toks, 1, "select") /\ Kw(toks, 2, "count") /\ Sym(toks, 3, "(")
       /\ Sym(toks, 4, "*") /\ Sym(toks, 5, ")") /\ Kw(toks, 6, "as") /\ IsName(toks, 7)
       /\ Kw(toks, 8, "from") /\ Sym(toks, 9, "(")
       /\ Sym(toks, n - 2, ")") /\ Kw(toks, n - 1, "as") /\ IsName(toks, n)
       /\ inner.ok
       /\ (inner.order # <<>> => inner.hasOffset)
    THEN inner
    ELSE SyntaxError

\* SELECT COUNT(*) AS name FROM (select) AS name: the select inside the parentheses, which
\* may carry an ORDER BY clause only together with OFFSET
ParseCount(toks) == CountOver(toks, Len(toks), ParseSelect(SubSeq(toks, 10, Len(toks) - 3)))

\* number {, number} from token p
RECURSIVE ParseNumbers(_, _)
ParseNumbers(toks, p) ==
    IF p <= Len(toks) /\ toks[p].k = "w" /\ IsNumberWord(toks[p].s)
    THEN IF Sym(toks, p + 1, ",") THEN ParseNumbers(toks, p + 2) ELSE p + 1
    ELSE 0

\* The statements that modify data or schema, by their verb ("" when toks is none of them):
\*   INSERT INTO table VALUES (number {, number})      DELETE FROM table
\*   UPDATE table SET column = number                  DROP TABLE table
\*   TRUNCATE TABLE table
WriteVerb(toks) ==
    LET n == Len(toks) IN
    IF /\ Kw(toks, 1, "insert") /\ Kw(toks, 2, "into") /\ IsName(toks, 3)
       /\ Kw(toks, 4, "values") /\ Sym(toks, 5, "(")
       /\ ParseNumbers(toks, 6) = n /\ Sym(toks, n, ")")
    THEN "insert"
    ELSE IF Kw(toks, 1, "delete") /\ Kw(toks, 2, "from") /\ IsName(toks, 3) /\ n = 3
    THEN "delete"
    ELSE IF /\ Kw(toks, 1, "update") /\ IsName(toks, 2) /\ Kw(toks, 3, "set")
            /\ IsName(toks, 4) /\ Sym(toks, 5, "=")
            /\ n = 6 /\ toks[6].k = "w" /\ IsNumberWord(toks[6].s)
    THEN "update"
    ELSE IF Kw(toks, 1, "drop") /\ Kw(toks, 2, "table") /\ IsName(toks, 3) /\ n = 3
    THEN "drop"
    ELSE IF Kw(toks, 1, "truncate") /\ Kw(toks, 2, "table") /\ IsName(toks, 3) /\ n = 3
    THEN "truncate"
    ELSE ""

(***************************************************************************)
(* The SQL Server behind request.query: evaluation over the table orders   *)
(***************************************************************************)

\* The database holds one table, orders(id, amount, note): rows in storage order, whether
\* the table exists, and the verbs of the modifying statements executed so far.
TableName == "orders"
TableColumns == <<"id", "amount", "note">>
ColumnSet == {TableColumns[i] : i \in DOMAIN TableColumns}

Row(id, amount, note) == [id |-> id, amount |-> amount, note |-> note]

\* the name a token refers to is spelled as the table declares it
NamesColumn(tok) == tok.k \in {"w", "b"} /\ ~IsNumberWord(tok.s) /\ tok.s \in ColumnSet

\* an operand can be evaluated: a declared column, a number, or a supplied parameter
OperandBound(tok, params) ==
    \/ tok.k = "w" /\ IsNumberWord(tok.s)
    \/ NamesColumn(tok)
    \/ tok.k = "p" /\ tok.s \in DOMAIN params

OperandValue(tok, row, params) ==
    IF tok.k = "p" THEN params[tok.s]
    ELSE IF tok.k = "w" /\ IsNumberWord(tok.s) THEN Num(ParseDigits(tok.s, 1, 0).n)
    ELSE row[tok.s]

\* a comparison is true only between two numbers, or between two strings for = and <>;
\* with NULL it is unknown, which filters the row out
Compare(a, op, b) ==
    IF a.t = "num" /\ b.t = "num"
    THEN CASE op = "=" -> a.n = b.n
           [] op = "<>" -> a.n # b.n
           [] op = "<" -> a.n < b.n
           [] op = "<=" -> a.n <= b.n
           [] op = ">" -> a.n > b.n
           [] OTHER -> a.n >= b.n
    ELSE IF a.t = "str" /\ b.t = "str"
    THEN CASE op = "=" -> a.s = b.s
           [] op = "<>" -> a.s # b.s
           [] OTHER -> FALSE
    ELSE FALSE

RowPasses(row, conds, params) ==
    \A i \in DOMAIN conds :
        Compare(OperandValue(conds[i].lhs, row, params), conds[i].op,
                OperandValue(conds[i].rhs, row, params))

\* a before b in the order of one column: NULL sorts lowest; only numbers are ranked
ValueBefore(a, b) ==
    \/ a.t = "null" /\ b.t # "null"
    \/ a.t = "num" /\ b.t = "num" /\ a.n < b.n

\* row a strictly before row b in the order of the ORDER BY items from item k
RECURSIVE RowBefore(_, _, _, _)
RowBefore(a, b, items, k) ==
    IF k > Len(items) THEN FALSE
    ELSE LET x == IF items[k].desc THEN b[items[k].field] ELSE a[items[k].field]
             y == IF items[k].desc THEN a[items[k].field] ELSE b[items[k].field]
         IN \/ ValueBefore(x, y)
            \/ ~ValueBefore(y, x) /\ RowBefore(a, b, items, k + 1)

\* All the orders in which the server may return the rows at the storage positions S:
\* without ORDER BY the storage order; with ORDER BY every order that respects the items,
\* rows that tie on all items in any order.
RECURSIVE Orderings(_, _, _)
Orderings(S, rows, items) ==
    IF S = {} THEN {<<>>}
    ELSE LET First == IF items = <<>> THEN {Least(S)}
                      ELSE {m \in S : \A x \in S : ~RowBefore(rows[x], rows[m], items, 1)}
         IN UNION {{<<rows[m]>> \o t : t \in Orderings(S \ {m}, rows, items)} : m \in First}

\* projection of a row on the select list
Project(row, q) == IF q.star THEN row ELSE [c \in {q.cols[i] : i \in DOMAIN q.cols} |-> row[c]]

\* the statement refers only to the table, its columns and supplied parameters
Binds(q, params, db) ==
    /\ db.exists
    /\ q.table = TableName
    /\ \A i \in DOMAIN q.cols : q.cols[i] \in ColumnSet
    /\ \A i \in DOMAIN q.conds :
           OperandBound(q.conds[i].lhs, params) /\ OperandBound(q.conds[i].rhs, params)
    /\ \A i \in DOMAIN q.order : q.order[i].field \in ColumnSet

\* the row sequences a SELECT may return
SelectResults(q, params, db) ==
    LET S == {i \in DOMAIN db.rows : RowPasses(db.rows[i], q.conds, params)}
        Slice(r) ==
            LET from == IF q.hasOffset THEN q.offset + 1 ELSE 1
                to == IF q.hasFetch THEN q.offset + q.fetch ELSE Len(r)
                cut == SubSeq(r, from, IF to > Len(r) THEN Len(r) ELSE to)
            IN [i \in DOMAIN cut |-> Project(cut[i], q)]
    IN {Slice(r) : r \in Orderings(S, db.rows, q.order)}

\* Outcomes of request.query: a recordset, or an error (err) that request.query rejects
\* with; code is the error code of the mssql driver; db is the database afterwards;
\* columns are the column names of the recordset in their order (Object.keys of a row).
QueryOk(recordset, columns, db) ==
    [err |-> FALSE, code |-> "", recordset |-> recordset, columns |-> columns, db |-> db]
QueryFails(db) ==
    [err |-> TRUE, code |-> "EREQUEST", recordset |-> <<>>, columns |-> <<>>, db |-> db]

\* the database after a modifying statement
Written(verb, db) ==
    [rows |-> IF verb \in {"delete", "truncate", "drop"} THEN <<>> ELSE db.rows,
     exists |-> db.exists /\ verb # "drop",
     writes |-> Append(db.writes, verb)]

\* the outcomes of a statement by what it parses as
ParsedOutcomes(toks, select, count, verb, params, db) ==
    IF select.ok
    THEN IF Binds(select, params, db)
         THEN {QueryOk(r, IF select.star THEN TableColumns ELSE select.cols, db) :
                   r \in SelectResults(select, params, db)}
         ELSE {QueryFails(db)}
    ELSE IF count.ok
    THEN IF Binds(count, params, db)
         THEN {QueryOk(<<[TotalCount |-> Num(Len(r))]>>, <<"TotalCount">>, db) :
                   r \in SelectResults(count, params, db)}
         ELSE {QueryFails(db)}
    ELSE IF verb # "" /\ db.exists /\ toks[IF verb = "update" THEN 2 ELSE 3].s = TableName
    THEN {QueryOk(<<>>, <<>>, Written(verb, db))}
    ELSE {QueryFails(db)}

TokenOutcomes(toks, params, db) ==
    ParsedOutcomes(toks, ParseSelect(toks), ParseCount(toks), WriteVerb(toks), params, db)

\* request.query(sqlQuery) with the inputs bound: every outcome the server may produce
QueryOutcomes(sqlQuery, params, db) == TokenOutcomes(Tokens(sqlQuery, 1), params, db)

(***************************************************************************)
(* Bounds and inputs                                                       *)
(***************************************************************************)

\* largest page size a caller asks for
MaxPageSize == 3
\* most pages a caller fetches one after the other
MaxPages == 4
\* largest batch size and largest row limit of a streaming run
MaxBatchSize == 5
MaxMaxRows == 5

NoParameters == [k \in {} |-> Undefined]

\* the tables the runs are checked on (rows in storage order)
Orders4 ==
    <<Row(Num(1), Num(10), Str("a")), Row(Num(2), Num(20), Str("b")),
      Row(Num(3), Num(30), Str("c")), Row(Num(4), Num(40), Str("d"))>>
Orders5 ==
    <<Row(Num(1), Num(10), Str("a")), Row(Num(2), Num(20), Str("b")),
      Row(Num(3), Num(30), Str("c")), Row(Num(4), Num(40), Str("d")),
      Row(Num(5), Num(5), Str("e"))>>
OrdersMixed ==
    <<Row(Num(3), Num(-7), Null), Row(Num(1), Null, Str("a")),
      Row(Num(2), Num(-7), Str("a"))>>
Tables == {Orders4, Orders5, OrdersMixed}

Database(rows) == [rows |-> rows, exists |-> TRUE, writes |-> <<>>]

\* the read statements callers page through
PageStatements ==
    {"SELECT * FROM orders",
     "SELECT * FROM orders ORDER BY id DESC",
     "SELECT * FROM orders WHERE amount > 5 ORDER BY id",
     "SELECT amount FROM orders",
     "SELECT amount, id FROM orders",
     "SELECT * FROM orders ORDER BY id\n",
     "SELECT * FROM orders ORDER BY amount"}

\* statements that modify data or schema, in several spellings
WriteStatements ==
    {"DELETE FROM orders", "delete\tfrom orders", "Drop\nTable orders",
     "INSERT INTO orders VALUES (9, 1)", "UPDATE orders SET amount = 0", "TRUNCATE TABLE orders",
     "truncate\ttable orders"}

(***************************************************************************)
(* State                                                                   *)
(***************************************************************************)

VARIABLES
    db,        \* the database behind the connection pool
    port,      \* the statements handed to request.query so far, with their parameters
    files,     \* the result files in QUERY_RESULTS_PATH: uuid -> payload
    uuids,     \* the number of uuids drawn from crypto.randomUUID
    pq,        \* the paginated_query call: position, arguments, locals, response
    hist,      \* the caller's record: the cursor of its first call, its moves (first, next,
               \* prev, again), the pages received and the response before a repeated call
    qs,        \* the query_streamer call: position, arguments, locals, response
    eq,        \* the execute_query call: position, arguments, response
    cc,        \* a cursor on its way through the codec: the triple, the token, the decoded object
    rw,        \* a call of paginateQuery on its own: the arguments and what it returned
    gr,        \* the get_query_results call: position, uuid, response
    sr,        \* the query_streamer calls that run at the same time: per call what qs holds
               \* for one, and the fetch it awaits
    xq,        \* the executeQuery calls that run at the same time: position, arguments,
               \* attempts, the error of the last attempt, the outcome
    sqlPool,   \* the module variable sqlPool of the database module: a pool, or 0 for null
    pools      \* the ConnectionPool objects created so far

vars == <<db, port, files, uuids, pq, hist, qs, eq, cc, rw, gr, sr, xq, sqlPool, pools>>

(***************************************************************************)
(* The write-keyword check of the query tools                              *)
(***************************************************************************)

prohibitedOperations == <<"drop ", "delete ", "truncate ", "update ", "alter ">>

\* prohibitedOperations.some(op => lowerSql.includes(op))
Prohibited(sql) ==
    \E i \in DOMAIN prohibitedOperations : includes(toLowerCase(sql), prohibitedOperations[i])

(***************************************************************************)
(* executeQuery                                                            *)
(***************************************************************************)

\* executeQuery(sqlQuery, parameters): request.input for each parameter, then
\* request.query; an error of the server is no transient error and is rethrown
executeQuery(sqlQuery, parameters, database) == QueryOutcomes(sqlQuery, parameters, database)

PortCall(sqlQuery, parameters) == [sql |-> sqlQuery, parameters |-> parameters]

(***************************************************************************)
(* paginated_query                                                         *)
(***************************************************************************)

\* The first match of /\s+head\s+.+?(?:enders|$)/i in s replaced by one space, where head is
\* a sequence of keywords separated by white space and enders a sequence of keywords that
\* end the match (the end of the text ends it too); "." matches no line break.
RECURSIVE HeadEnd(_, _, _, _)
HeadEnd(s, p, head, k) ==
    \* the position behind the keywords head[k..] that start with white space at p, or 0
    IF k > Len(head) THEN p
    ELSE IF SpaceThenKeyword(s, head[k], p)
         THEN HeadEnd(s, SkipSpace(s, p) + Len(head[k]), head, k + 1)
         ELSE 0

ReplaceClause(s, head, enders) ==
    LET Ender(e) == {k \in DOMAIN enders : KeywordAt(s, enders[k], e + 1)}
        Ends(c) == {e \in c..Len(s) :
                        /\ \A x \in c..e : Ch(s, x) \notin {"\n", "\r"}
                        /\ (Ender(e) # {} \/ e = Len(s))}
        Caps(i) == LET b == HeadEnd(s, i, head, 1) IN
                   IF b = 0 \/ ~IsSpace(Ch(s, b)) THEN {}
                   ELSE {c \in (b + 1)..SkipSpace(s, b) : c <= Len(s) /\ Ends(c) # {}}
        At == {i \in 1..Len(s) : Caps(i) # {}}
    IN IF At = {} THEN s
       ELSE LET i == Least(At)
                e == Least(Ends(Greatest(Caps(i))))
                to == IF Ender(e) # {} THEN e + Len(enders[Least(Ender(e))]) ELSE e
            IN SubSeq(s, 1, i - 1) \o " " \o From(s, to + 1)

\* the statement that counts the rows of sql
CountSql(sql) ==
    LET noOrder == ReplaceClause(sql, <<"order", "by">>, <<"offset", "fetch">>)
        noOffset == ReplaceClause(noOrder, <<"offset">>, <<"fetch">>)
        noFetch == ReplaceClause(noOffset, <<"fetch">>, <<>>)
    IN "SELECT COUNT(*) AS TotalCount FROM (" \o noFetch \o ") AS CountQuery"

\* Math.ceil(a / b) for a >= 0, b > 0
Ceil(a, b) == (a + b - 1) \div b

PageIdle ==
    [pc |-> "idle", sql |-> "", cursorField |-> "", pageSize |-> 1, cursor |-> NoCursor,
     parameters |-> NoParameters, includeCount |-> FALSE, direction |-> "next",
     totalCount |-> Null, estimatedTotalPages |-> Null,
     response |-> [isError |-> FALSE]]

\* the response of a call that failed
ErrorResponse(kind) == [isError |-> TRUE, kind |-> kind]

\* query_streamer, execute_query and the codec at rest
StreamIdle ==
    [pc |-> "idle", sql |-> "", batchSize |-> 1, maxRows |-> 1, parameters |-> NoParameters,
     cursorField |-> "", outputType |-> "summary", aggregations |-> <<>>,
     aggregationResults |-> <<>>, cursor |-> NoCursor, totalProcessedRows |-> 0,
     hasMore |-> TRUE, batchCount |-> 0, allResults |-> <<>>, csvOutput |-> "",
     headers |-> <<>>, uuid |-> 0, response |-> [isError |-> FALSE]]
ExecIdle ==
    [pc |-> "idle", sql |-> "", parameters |-> NoParameters, response |-> [isError |-> FALSE]]
CodecIdle ==
    [pc |-> "idle", way |-> "", field |-> "", value |-> Undefined, operator |-> "",
     token |-> NoCursor, parsed |-> JsonThrow]

\* paginated_query is called: the write-keyword check, then the count query is issued if
\* requested, else the page query
PageCall(sql, cursorField, pageSize, cursor, parameters, includeCount, direction) ==
    /\ pq.pc \in {"idle", "done"}
    /\ LET args == [PageIdle EXCEPT !.sql = sql, !.cursorField = cursorField,
                        !.pageSize = pageSize, !.cursor = cursor,
                        !.parameters = parameters, !.includeCount = includeCount,
                        !.direction = direction]
       IN pq' = IF Prohibited(sql)
                THEN [args EXCEPT !.pc = "done", !.response = ErrorResponse("validation")]
                ELSE [args EXCEPT !.pc = IF includeCount THEN "count" ELSE "page"]
    /\ UNCHANGED <<db, port, files, uuids, qs, eq, cc, rw, gr, sr, xq, sqlPool, pools>>

\* (variant: a failed count query ends the call)
PageCountedFatal(o, totalCount) ==
    IF o.err THEN [pq EXCEPT !.pc = "done", !.response = ErrorResponse("query")]
    ELSE [pq EXCEPT !.pc = "page", !.totalCount = totalCount]

\* the call after the count query returned o
PageCounted(o, totalCount) ==
    IF ~o.err /\ Len(o.recordset) > 0
    THEN [pq EXCEPT !.pc = "page", !.totalCount = totalCount,
                    !.estimatedTotalPages =
                        IF totalCount.t = "num"
                        THEN Num(Ceil(totalCount.n, pq.pageSize)) ELSE Null]
    ELSE [pq EXCEPT !.pc = "page"]

PageCountIssued(countSql) ==
    /\ port' = Append(port, PortCall(countSql, pq.parameters))
    /\ \E o \in executeQuery(countSql, pq.parameters, db) :
        /\ db' = o.db
        /\ pq' = PageCounted(o, IF ~o.err /\ Len(o.recordset) > 0
                                THEN Get(o.recordset[1], "TotalCount") ELSE Null)

\* the count query returns or fails; a failure leaves totalCount null and the call goes on
PageCount ==
    /\ pq.pc = "count"
    /\ PageCountIssued(CountSql(pq.sql))
    /\ UNCHANGED <<files, uuids, hist, qs, eq, cc, rw, gr, sr, xq, sqlPool, pools>>

\* the cursor field the handler uses and reports
EffectiveCursorField(sql, cursorField) ==
    IF cursorField # "" THEN cursorField ELSE extractDefaultCursorField(sql)

\* the response of a page: a uuid is drawn, the rows are saved unless there are none
PageResponded(recordset, rowCount, effectiveCursorField, nextCursor, prevCursor, uuid) ==
    /\ uuids' = uuid
    /\ hist' = [hist EXCEPT !.pages = Append(@, recordset)]
    /\ files' = IF rowCount > 0
                THEN (uuid :> [tool |-> "paginated_query", ext |-> "json", uuid |-> uuid,
                               rowCount |-> rowCount, results |-> recordset])
                         @@ files
                ELSE files
    /\ pq' = [pq EXCEPT !.pc = "done",
                  !.response = [isError |-> FALSE,
                                rowCount |-> rowCount,
                                results |-> recordset,
                                uuid |-> uuid,
                                pagination |->
                                    [cursorField |-> effectiveCursorField,
                                     pageSize |-> pq.pageSize,
                                     returnedRows |-> rowCount,
                                     hasMore |-> CursorGiven(nextCursor),
                                     nextCursor |-> nextCursor,
                                     prevCursor |-> prevCursor,
                                     direction |-> pq.direction,
                                     totalCount |-> pq.totalCount,
                                     estimatedTotalPages |-> pq.estimatedTotalPages]]]

\* the cursors of a page: hasMore = rowCount >= pageSize
PageReturns(recordset, rowCount, effectiveCursorField) ==
    PageResponded(recordset, rowCount, effectiveCursorField,
                  IF rowCount > 0 /\ rowCount >= pq.pageSize
                  THEN generateNextCursor(recordset[rowCount], TRUE, effectiveCursorField)
                  ELSE NoCursor,
                  IF rowCount > 0 /\ CursorGiven(pq.cursor)
                  THEN generatePrevCursor(recordset[1], TRUE, effectiveCursorField)
                  ELSE NoCursor,
                  uuids + 1)

PageIssued(effectiveCursorField, paginated) ==
    /\ port' = Append(port, PortCall(paginated.paginatedSql, paginated.parameters))
    /\ \E o \in executeQuery(paginated.paginatedSql, paginated.parameters, db) :
        /\ db' = o.db
        /\ IF o.err
           THEN /\ pq' = [pq EXCEPT !.pc = "done", !.response = ErrorResponse("query")]
                /\ UNCHANGED <<files, uuids, hist>>
           ELSE PageReturns(o.recordset, Len(o.recordset), effectiveCursorField)

PageWith(effectiveCursorField, defaultCursorField) ==
    PageIssued(effectiveCursorField,
               paginateQuery(pq.sql, effectiveCursorField, pq.pageSize, pq.cursor,
                             pq.parameters, defaultCursorField))

PageFor(defaultCursorField) ==
    PageWith(IF pq.cursorField # "" THEN pq.cursorField ELSE defaultCursorField,
             defaultCursorField)

\* the page query returns or fails: cursors, result file and response
PageExecute ==
    /\ pq.pc = "page"
    /\ PageFor(extractDefaultCursorField(pq.sql))
    /\ UNCHANGED <<qs, eq, cc, rw, gr, sr, xq, sqlPool, pools>>

(***************************************************************************)
(* execute_query                                                           *)
(***************************************************************************)

\* execute_query is called: the write-keyword check, then the statement goes to
\* executeQuery as it was given
ExecCall(sql, parameters) ==
    /\ eq.pc = "idle"
    /\ eq' = IF Prohibited(sql)
             THEN [ExecIdle EXCEPT !.pc = "done", !.sql = sql, !.parameters = parameters,
                                   !.response = ErrorResponse("validation")]
             ELSE [ExecIdle EXCEPT !.pc = "run", !.sql = sql, !.parameters = parameters]
    /\ UNCHANGED <<db, port, files, uuids, pq, hist, qs, cc, rw, gr, sr, xq, sqlPool, pools>>

\* the statement returns or fails: a uuid is drawn for the response, no file is written
ExecRun ==
    /\ eq.pc = "run"
    /\ port' = Append(port, PortCall(eq.sql, eq.parameters))
    /\ \E o \in executeQuery(eq.sql, eq.parameters, db) :
        /\ db' = o.db
        /\ IF o.err
           THEN /\ eq' = [eq EXCEPT !.pc = "done", !.response = ErrorResponse("query")]
                /\ UNCHANGED uuids
           ELSE /\ uuids' = uuids + 1
                /\ eq' = [eq EXCEPT !.pc = "done",
                              !.response = [isError |-> FALSE,
                                            rowCount |-> Len(o.recordset),
                                            results |-> o.recordset,
                                            uuid |-> uuids + 1]]
    /\ UNCHANGED <<files, pq, hist, qs, cc, rw, gr, sr, xq, sqlPool, pools>>

(***************************************************************************)
(* query_streamer: aggregation accumulators                                *)
(***************************************************************************)

\* What a slot of aggregationResults holds: a number (the quotient n / d, d > 0),
\* Number.MAX_VALUE, Number.MIN_VALUE (the smallest positive double), a Set, or undefined.
AccNumber(n, d) == [k |-> "number", n |-> n, d |-> d, set |-> {}]
AccMaxValue == [k |-> "MAX_VALUE", n |-> 0, d |-> 1, set |-> {}]
AccMinValue == [k |-> "MIN_VALUE", n |-> 0, d |-> 1, set |-> {}]
AccSet(S) == [k |-> "Set", n |-> 0, d |-> 1, set |-> S]
AccUndefined == [k |-> "undefined", n |-> 0, d |-> 1, set |-> {}]

Aggregation(field, operation) == [field |-> field, operation |-> operation]

\* the slot of an aggregation: operation:field
AggKey(agg) == agg.operation \o ":" \o agg.field

\* the value the slot of an operation starts with
InitialAccumulator(operation) ==
    IF operation \in {"sum", "avg", "count"} THEN AccNumber(0, 1)
    ELSE IF operation = "min" THEN AccMaxValue
    ELSE IF operation = "max" THEN AccMinValue
    ELSE AccSet({})

\* aggregations.forEach over the switch that fills aggregationResults
RECURSIVE InitAggregations(_, _, _)
InitAggregations(aggregations, i, results) ==
    IF i > Len(aggregations) THEN results
    ELSE InitAggregations(aggregations, i + 1,
             (AggKey(aggregations[i]) :> InitialAccumulator(aggregations[i].operation))
                 @@ results)

NoAggregationResults == [k \in {} |-> AccUndefined]

\* value < slot and value > slot for a number value (an integer here)
BelowSlot(n, acc) == IF acc.k = "MAX_VALUE" THEN TRUE ELSE n * acc.d < acc.n
AboveSlot(n, acc) == IF acc.k = "MIN_VALUE" THEN n > 0 ELSE n * acc.d > acc.n

\* one aggregation applied to one row (the body of the inner forEach)
AccumulateValue(results, agg, row) ==
    LET value == Get(row, agg.field)
        key == AggKey(agg)
        acc == results[key]
        operation == agg.operation
    IN IF value.t \in {"null", "undef"} THEN results
       ELSE IF operation \in {"sum", "avg"}
       THEN IF value.t = "num"
            THEN [results EXCEPT ![key] = AccNumber(acc.n + value.n * acc.d, acc.d)]
            ELSE results
       ELSE IF operation = "min"
       THEN IF value.t = "num" /\ BelowSlot(value.n, acc)
            THEN [results EXCEPT ![key] = AccNumber(value.n, 1)]
            ELSE results
       ELSE IF operation = "max"
       THEN IF value.t = "num" /\ AboveSlot(value.n, acc)
            THEN [results EXCEPT ![key] = AccNumber(value.n, 1)]
            ELSE results
       ELSE IF operation = "count"
       THEN [results EXCEPT ![key] = AccNumber(acc.n + acc.d, acc.d)]
       ELSE [results EXCEPT ![key] = AccSet(acc.set \cup {value})]

RECURSIVE AccumulateRow(_, _, _, _)
AccumulateRow(results, row, aggregations, i) ==
    IF i > Len(aggregations) THEN results
    ELSE AccumulateRow(AccumulateValue(results, aggregations[i], row), row, aggregations, i + 1)

\* batchRows.forEach(row => aggregations.forEach(...))
RECURSIVE AccumulateBatch(_, _, _, _)
AccumulateBatch(results, batchRows, aggregations, j) ==
    IF j > Len(batchRows) THEN results
    ELSE AccumulateBatch(AccumulateRow(results, batchRows[j], aggregations, 1),
                         batchRows, aggregations, j + 1)

\* aggregationResults['count:field'] || totalProcessedRows
AvgCount(results, field, totalProcessedRows) ==
    LET countKey == "count:" \o field IN
    IF countKey \in DOMAIN results /\ results[countKey].n # 0
    THEN results[countKey].n
    ELSE totalProcessedRows

\* one aggregation finalized: avg is divided by the count, a Set gives way to its size
FinalizeValue(results, agg, totalProcessedRows) ==
    LET key == AggKey(agg)
        count == AvgCount(results, agg.field, totalProcessedRows)
    IN IF agg.operation = "avg"
       THEN IF count > 0
            THEN [results EXCEPT ![key] = AccNumber(@.n, @.d * count)]
            ELSE results
       ELSE IF agg.operation = "countDistinct"
       THEN [results EXCEPT ![key] = IF @.k = "Set" THEN AccNumber(Cardinality(@.set), 1)
                                     ELSE AccUndefined]
       ELSE results

RECURSIVE FinalizeAggregations(_, _, _, _)
FinalizeAggregations(results, aggregations, totalProcessedRows, i) ==
    IF i > Len(aggregations) THEN results
    ELSE FinalizeAggregations(FinalizeValue(results, aggregations[i], totalProcessedRows),
                              aggregations, totalProcessedRows, i + 1)

(***************************************************************************)
(* query_streamer: CSV text                                                *)
(***************************************************************************)

\* value.replace(/"/g, '""')
RECURSIVE DoubleQuotes(_)
DoubleQuotes(s) ==
    IF Len(s) <= 1 THEN (IF s = "\"" THEN "\"\"" ELSE s)
    ELSE DoubleQuotes(SubSeq(s, 1, Len(s) \div 2)) \o DoubleQuotes(From(s, Len(s) \div 2 + 1))

CsvField(value) ==
    IF value.t = "null" THEN ""
    ELSE IF value.t = "str" THEN "\"" \o DoubleQuotes(value.s) \o "\""
    ELSE TemplateText(value)

\* parts.join(sep)
RECURSIVE Join(_, _)
Join(parts, sep) ==
    IF parts = <<>> THEN ""
    ELSE IF Len(parts) = 1 THEN parts[1]
    ELSE parts[1] \o sep \o Join(Tail(parts), sep)

CsvRow(row, headers) == Join([i \in DOMAIN headers |-> CsvField(Get(row, headers[i]))], ",")

\* the lines that a batch adds to csvOutput
RECURSIVE CsvRows(_, _)
CsvRows(batchRows, headers) ==
    IF batchRows = <<>> THEN ""
    ELSE CsvRow(Head(batchRows), headers) \o "\n" \o CsvRows(Tail(batchRows), headers)

(***************************************************************************)
(* query_streamer                                                          *)
(***************************************************************************)

\* query_streamer is called: the write-keyword check, the accumulators, the run state and
\* the uuid of the output file; the loop is entered (hasMore is true, 0 < maxRows)
StreamCall(sql, batchSize, maxRows, parameters, cursorField, outputType, aggregations) ==
    /\ qs.pc = "idle"
    /\ LET args == [StreamIdle EXCEPT !.sql = sql, !.batchSize = batchSize,
                        !.maxRows = maxRows, !.parameters = parameters,
                        !.cursorField = cursorField, !.outputType = outputType,
                        !.aggregations = aggregations]
       IN IF Prohibited(sql)
          THEN /\ qs' = [args EXCEPT !.pc = "done", !.response = ErrorResponse("validation")]
               /\ UNCHANGED uuids
          ELSE /\ qs' = [args EXCEPT !.pc = "batch",
                             !.aggregationResults =
                                 InitAggregations(aggregations, 1, NoAggregationResults),
                             !.uuid = uuids + 1]
               /\ uuids' = uuids + 1
    /\ UNCHANGED <<db, port, files, pq, hist, eq, cc, rw, gr, sr, xq, sqlPool, pools>>

\* the file that a finished run writes
StreamFile(run, aggregationResults) ==
    IF run.outputType = "csv"
    THEN [tool |-> "query_streamer", ext |-> "csv", outputType |-> "csv", csv |-> run.csvOutput]
    ELSE [tool |-> "query_streamer", ext |-> "json", uuid |-> run.uuid,
          outputType |-> run.outputType,
          totalRows |-> run.totalProcessedRows, batchCount |-> run.batchCount,
          aggregations |-> aggregationResults,
          results |-> IF run.outputType = "json" THEN run.allResults ELSE <<>>]

\* the response of a run that left the loop
StreamResponse(run, final) ==
    [isError |-> FALSE,
     uuid |-> run.uuid,
     totalRows |-> run.totalProcessedRows,
     batchCount |-> run.batchCount,
     outputType |-> run.outputType,
     aggregations |-> final]

\* The loop is left: the file is written, or writeFileSync throws and the catch logs the
\* error; the response is built from the final aggregates after either.
StreamFinished(run, final) ==
    /\ \E written \in BOOLEAN :
           files' = IF written THEN (run.uuid :> StreamFile(run, final)) @@ files ELSE files
    /\ qs' = [run EXCEPT !.pc = "done",
                         !.aggregationResults = final,
                         !.response = StreamResponse(run, final)]

\* (variant: the loop is left after every batch)
StreamAfterOnce(run) ==
    StreamFinished(run, FinalizeAggregations(run.aggregationResults, run.aggregations,
                                             run.totalProcessedRows, 1))

\* the run after a batch: the loop goes on while hasMore
StreamAfter(run) ==
    IF run.hasMore
    THEN qs' = run /\ UNCHANGED files
    ELSE StreamFinished(run, FinalizeAggregations(run.aggregationResults, run.aggregations,
                                                  run.totalProcessedRows, 1))

\* the text of csvOutput after a batch
CsvAfter(csvOutput, outputType, first, batchRows, headers) ==
    IF outputType = "csv"
    THEN (IF first THEN Join(headers, ",") \o "\n" ELSE csvOutput) \o CsvRows(batchRows, headers)
    ELSE csvOutput

\* a batch returned batchRows: the counters, the cursor of the next batch, the sink of the
\* output type and the accumulators
StreamAccumulated(run, batchRows, batchRowCount, columns, effectiveCursorField, hasMore, first) ==
    [run EXCEPT
        !.totalProcessedRows = @ + batchRowCount,
        !.hasMore = hasMore,
        !.headers = IF first THEN columns ELSE @,
        !.cursor = IF batchRowCount > 0 /\ hasMore
                   THEN generateNextCursor(batchRows[batchRowCount], TRUE, effectiveCursorField)
                   ELSE @,
        !.allResults = IF run.outputType = "json" THEN @ \o batchRows ELSE @,
        !.csvOutput = CsvAfter(@, run.outputType, first, batchRows,
                               IF first THEN columns ELSE run.headers),
        !.aggregationResults = AccumulateBatch(@, batchRows, run.aggregations, 1)]

\* the turn of the loop in one step: batchCount is counted up, the rows are processed
StreamRows(batchRows, batchRowCount, columns, effectiveCursorField, hasMore, first) ==
    StreamAfter([StreamAccumulated(qs, batchRows, batchRowCount, columns, effectiveCursorField,
                                   hasMore, first)
                    EXCEPT !.batchCount = @ + 1])

StreamIssued(effectiveCursorField, paginated) ==
    /\ port' = Append(port, PortCall(paginated.paginatedSql, paginated.parameters))
    /\ \E o \in executeQuery(paginated.paginatedSql, paginated.parameters, db) :
        /\ db' = o.db
        /\ IF o.err
           THEN /\ qs' = [qs EXCEPT !.pc = "done", !.batchCount = @ + 1,
                                    !.response = ErrorResponse("query")]
                /\ UNCHANGED files
           ELSE StreamRows(o.recordset, Len(o.recordset), o.columns, effectiveCursorField,
                           Len(o.recordset) >= qs.batchSize
                               /\ qs.totalProcessedRows + Len(o.recordset) < qs.maxRows,
                           qs.batchCount = 0 /\ Len(o.recordset) > 0)

StreamWith(effectiveCursorField, defaultCursorField) ==
    StreamIssued(effectiveCursorField,
                 paginateQuery(qs.sql, effectiveCursorField, qs.batchSize, qs.cursor,
                               qs.parameters, defaultCursorField))

StreamFor(defaultCursorField) ==
    StreamWith(IF qs.cursorField # "" THEN qs.cursorField ELSE defaultCursorField,
               defaultCursorField)

\* One turn of the streaming loop: the batch statement is issued and returns or fails. A
\* failure ends the call in the catch block. After the last batch the aggregations are
\* finalized, the file is written and the response is built.
StreamBatch ==
    /\ qs.pc = "batch"
    /\ StreamFor(extractDefaultCursorField(qs.sql))
    /\ UNCHANGED <<uuids, pq, hist, eq, cc, rw, gr, sr, xq, sqlPool, pools>>

(***************************************************************************)
(* The cursor codec on its own                                             *)
(***************************************************************************)

\* a cursor object is encoded as generateNextCursor and generatePrevCursor encode it,
\* with an operator of the caller's choice
CodecEncode(field, value, operator) ==
    /\ cc.pc = "idle"
    /\ cc' = [CodecIdle EXCEPT !.pc = "encoded", !.way = "encode", !.field = field,
                               !.value = value, !.operator = operator,
                               !.token = EncodeCursor(field, value, operator)]
    /\ UNCHANGED <<db, port, files, uuids, pq, hist, qs, eq, rw, gr, sr, xq, sqlPool, pools>>

\* generateNextCursor on a row that holds value in column field
CodecNext(field, value) ==
    /\ cc.pc = "idle"
    /\ cc' = [CodecIdle EXCEPT !.pc = "encoded", !.way = "next", !.field = field,
                               !.value = value, !.operator = ">",
                               !.token = generateNextCursor([c \in {field} |-> value], TRUE, field)]
    /\ UNCHANGED <<db, port, files, uuids, pq, hist, qs, eq, rw, gr, sr, xq, sqlPool, pools>>

\* generatePrevCursor on a row that holds value in column field
CodecPrev(field, value) ==
    /\ cc.pc = "idle"
    /\ cc' = [CodecIdle EXCEPT !.pc = "encoded", !.way = "prev", !.field = field,
                               !.value = value, !.operator = "<=",
                               !.token = generatePrevCursor([c \in {field} |-> value], TRUE, field)]
    /\ UNCHANGED <<db, port, files, uuids, pq, hist, qs, eq, rw, gr, sr, xq, sqlPool, pools>>

\* decodeCursor on the token
CodecDecode ==
    /\ cc.pc = "encoded"
    /\ cc' = [cc EXCEPT !.pc = "decoded", !.parsed = decodeCursor(cc.token)]
    /\ UNCHANGED <<db, port, files, uuids, pq, hist, qs, eq, rw, gr, sr, xq, sqlPool, pools>>

(***************************************************************************)
(* Callers                                                                 *)
(***************************************************************************)

\* no tool has been called yet: a behaviour follows one chain of calls of one tool
Quiet ==
    /\ pq.pc = "idle" /\ qs.pc = "idle" /\ eq.pc = "idle" /\ cc.pc = "idle" /\ rw.pc = "idle"
    /\ gr.pc = "idle"
    /\ \A r \in DOMAIN sr : sr[r].run.pc = "idle"
    /\ \A c \in DOMAIN xq : xq[c].pc = "idle"

\* cursor tokens a caller may hand in on its own: none, one that is no cursor, and cursors
\* for a field and value of its choice
CallerCursors ==
    {NoCursor, Token("bm90IGEgY3Vyc29y"), EncodeCursor("id", Num(2), ">"),
     EncodeCursor("amount", Num(20), ">=")}

CallerFields == {"", "id", "amount"}

\* the caller's first call, with arguments of its choice
FirstPage ==
    /\ Quiet
    /\ \E sql \in PageStatements \cup WriteStatements, cursorField \in CallerFields,
          pageSize \in 1..MaxPageSize, cursor \in CallerCursors, includeCount \in BOOLEAN :
        /\ PageCall(sql, cursorField, pageSize, cursor, NoParameters, includeCount, "next")
        /\ hist' = [first |-> cursor, pages |-> <<>>, moves |-> <<"first">>,
                    before |-> [isError |-> FALSE]]

\* the caller follows the "Next Page" navigation of the last response: same sql and page
\* size, the reported cursor field, the reported nextCursor
NextPage ==
    /\ pq.pc = "done"
    /\ ~pq.response.isError
    /\ CursorGiven(pq.response.pagination.nextCursor)
    /\ Len(hist.pages) < MaxPages
    /\ PageCall(pq.sql, pq.response.pagination.cursorField, pq.pageSize,
                pq.response.pagination.nextCursor, pq.parameters, pq.includeCount, "next")
    /\ hist' = [hist EXCEPT !.moves = Append(@, "next")]

\* the caller follows the "Previous Page" navigation of the last response: same sql and
\* page size, the reported cursor field, the reported prevCursor, direction "prev"
PrevPage ==
    /\ pq.pc = "done"
    /\ ~pq.response.isError
    /\ CursorGiven(pq.response.pagination.prevCursor)
    /\ Len(hist.moves) <= MaxPages
    /\ PageCall(pq.sql, pq.response.pagination.cursorField, pq.pageSize,
                pq.response.pagination.prevCursor, pq.parameters, pq.includeCount, "prev")
    /\ hist' = [hist EXCEPT !.moves = Append(@, "prev")]

\* the caller makes its first call once more, with the same arguments, and keeps the
\* response it got before
AgainPage ==
    /\ pq.pc = "done"
    /\ ~pq.response.isError
    /\ hist.moves = <<"first">>
    /\ PageCall(pq.sql, pq.cursorField, pq.pageSize, pq.cursor, pq.parameters,
                pq.includeCount, pq.direction)
    /\ hist' = [hist EXCEPT !.moves = Append(@, "again"), !.before = pq.response]

\* what a caller of query_streamer asks for: where the rows go and what is aggregated
StreamRequests ==
    {[outputType |-> "summary", aggregations |-> <<Aggregation("amount", "sum")>>],
     [outputType |-> "summary", aggregations |-> <<Aggregation("amount", "avg")>>],
     [outputType |-> "summary",
      aggregations |-> <<Aggregation("amount", "avg"), Aggregation("amount", "count")>>],
     [outputType |-> "summary",
      aggregations |-> <<Aggregation("amount", "min"), Aggregation("amount", "max")>>],
     [outputType |-> "json",
      aggregations |-> <<Aggregation("note", "count"), Aggregation("note", "countDistinct")>>],
     [outputType |-> "json", aggregations |-> <<>>],
     [outputType |-> "csv", aggregations |-> <<>>]}

\* the statements callers stream
StreamStatements ==
    {"SELECT * FROM orders", "SELECT amount FROM orders",
     "delete\tfrom orders", "UPDATE orders SET amount = 0"}

StreamStart ==
    /\ Quiet
    /\ \E sql \in StreamStatements, batchSize \in 1..MaxBatchSize, maxRows \in 1..MaxMaxRows,
          request \in StreamRequests :
        StreamCall(sql, batchSize, maxRows, NoParameters, "", request.outputType,
                   request.aggregations)

ExecStart ==
    /\ Quiet
    /\ \E sql \in PageStatements \cup WriteStatements : ExecCall(sql, NoParameters)

\* the triples that go through the codec
CodecFields == {"", "id", "amount", "order id", "a\"b\\c"}
CodecValues ==
    {Num(0), Num(2), Num(-7), Num(1234567), Str(""), Str("a"), Str("O\"Brien \\ x"),
     Str("line\nbreak\ttab"), Bool(TRUE), Bool(FALSE), Null}
Operators == {">", ">=", "<", "<="}

CodecStart ==
    /\ Quiet
    /\ \E field \in CodecFields, value \in CodecValues :
        \/ \E operator \in Operators : CodecEncode(field, value, operator)
        \/ CodecNext(field, value)
        \/ CodecPrev(field, value)

\* paginateQuery at rest
RewriteIdle ==
    [pc |-> "idle", sql |-> "", cursorField |-> "", pageSize |-> 1, cursor |-> NoCursor,
     parameters |-> NoParameters,
     result |-> [paginatedSql |-> "", parameters |-> NoParameters, cursorField |-> ""]]

\* paginateQuery is called as the handlers call it (defaultCursorField is what
\* extractDefaultCursorField finds in sql) and returns
RewriteCall(sql, cursorField, pageSize, cursor, parameters) ==
    /\ rw.pc = "idle"
    /\ rw' = [pc |-> "done", sql |-> sql, cursorField |-> cursorField, pageSize |-> pageSize,
              cursor |-> cursor, parameters |-> parameters,
              result |-> paginateQuery(sql, cursorField, pageSize, cursor, parameters,
                                       extractDefaultCursorField(sql))]
    /\ UNCHANGED <<db, port, files, uuids, pq, hist, qs, eq, cc, gr, sr, xq, sqlPool, pools>>

\* the statements handed to paginateQuery
RewriteStatements ==
    {"SELECT * FROM orders",
     "  SELECT id, amount FROM orders\n",
     "SELECT * FROM orders WHERE amount > 5",
     "SELECT * FROM orders ORDER BY amount DESC, id",
     "SELECT * FROM orders ORDER BY id OFFSET 2 ROWS FETCH NEXT 2 ROWS ONLY",
     "SELECT note FROM fetch_log"}

\* the cursor tokens handed to it: none, text that is no base64 of JSON, JSON without a
\* value, JSON without a field, and cursors for several fields
RewriteCursors ==
    {NoCursor, Token("bm90IGEgY3Vyc29y"),
     Token(Base64Encode("{\"field\":\"id\"}")), Token(Base64Encode("{\"value\":3}")),
     EncodeCursor("id", Num(2), ">"), EncodeCursor("amount", Num(20), ">="),
     EncodeCursor("order id", Str("x"), "<=")}

\* the parameters of the caller
RewriteParameters ==
    {NoParameters, "minAmount" :> Num(5), ("cursor_id" :> Num(99)) @@ ("minAmount" :> Num(5))}

RewriteStart ==
    /\ Quiet
    /\ \E sql \in RewriteStatements, cursorField \in CallerFields, pageSize \in 1..MaxPageSize,
          cursor \in RewriteCursors, parameters \in RewriteParameters :
        RewriteCall(sql, cursorField, pageSize, cursor, parameters)

(***************************************************************************)
(* query_streamer calls that run at the same time                          *)
(***************************************************************************)

\* The handler keeps cursor, totalProcessedRows, hasMore, batchCount, allResults, csvOutput,
\* headers and aggregationResults in locals of the call. A call gives way to other calls
\* only at await executeQuery(...); between two awaits it runs without interruption.

\* the calls
Runs == 1..2

\* a call at rest: its locals, the number of its fetches under way, its last fetch
RunIdle == [run |-> StreamIdle, outstanding |-> 0, fetch |-> PortCall("", NoParameters)]

\* the call after validation and set-up, before the first turn of the loop
RunStarted(sql, batchSize, maxRows, request, uuid) ==
    [RunIdle EXCEPT
        !.run = IF Prohibited(sql)
                THEN [StreamIdle EXCEPT !.pc = "done", !.sql = sql, !.batchSize = batchSize,
                                        !.maxRows = maxRows, !.outputType = request.outputType,
                                        !.aggregations = request.aggregations,
                                        !.response = ErrorResponse("validation")]
                ELSE [StreamIdle EXCEPT !.pc = "batch", !.sql = sql, !.batchSize = batchSize,
                                        !.maxRows = maxRows, !.outputType = request.outputType,
                                        !.aggregations = request.aggregations,
                                        !.aggregationResults =
                                            InitAggregations(request.aggregations, 1,
                                                             NoAggregationResults),
                                        !.uuid = uuid]]

\* the statement of the next batch of a call
RunFetch(run, defaultCursorField) ==
    paginateQuery(run.sql, IF run.cursorField # "" THEN run.cursorField ELSE defaultCursorField,
                  run.batchSize, run.cursor, run.parameters, defaultCursorField)

RunFetching(e, paginated) ==
    [run |-> [e.run EXCEPT !.pc = "await", !.batchCount = @ + 1],
     outstanding |-> e.outstanding + 1,
     fetch |-> PortCall(paginated.paginatedSql, paginated.parameters)]

\* (variant: executeQuery is not awaited, the loop goes on at once)
RunIssuedUnawaited(e) ==
    [RunFetching(e, RunFetch(e.run, extractDefaultCursorField(e.run.sql)))
        EXCEPT !.run.pc = "batch"]

\* the call at await executeQuery(paginatedSql, paginatedParams): batchCount is counted up,
\* the statement is built from the cursor and handed to executeQuery
RunIssued(e) == RunFetching(e, RunFetch(e.run, extractDefaultCursorField(e.run.sql)))

\* the call after the rows of a batch are processed: back in the loop, or finished
RunAfter(e, run) ==
    [e EXCEPT !.outstanding = @ - 1,
              !.run = IF run.hasMore THEN [run EXCEPT !.pc = "batch"]
                      ELSE [run EXCEPT
                               !.pc = "done",
                               !.aggregationResults =
                                   FinalizeAggregations(run.aggregationResults, run.aggregations,
                                                        run.totalProcessedRows, 1),
                               !.response =
                                   StreamResponse(run,
                                       FinalizeAggregations(run.aggregationResults,
                                                            run.aggregations,
                                                            run.totalProcessedRows, 1))]]

\* the call after executeQuery settled with o
RunReturned(e, o) ==
    IF o.err
    THEN [e EXCEPT !.outstanding = @ - 1, !.run.pc = "done",
                   !.run.response = ErrorResponse("query")]
    ELSE RunAfter(e, StreamAccumulated(e.run, o.recordset, Len(o.recordset), o.columns,
                                       EffectiveCursorField(e.run.sql, e.run.cursorField),
                                       Len(o.recordset) >= e.run.batchSize
                                           /\ e.run.totalProcessedRows + Len(o.recordset)
                                                  < e.run.maxRows,
                                       e.run.batchCount = 1 /\ Len(o.recordset) > 0))

\* (variant: cursor is a variable of the module, shared by the calls)
RunLocalsShared(r) == [sr[r] EXCEPT !.run.cursor = sr[3 - r].run.cursor]

\* the locals that a turn of call r works on: its own
RunLocals(r) == sr[r]

\* what the callers that stream at the same time ask for
RunInputs ==
    {[sql |-> "SELECT * FROM orders", batchSize |-> 1, maxRows |-> 2,
      request |-> [outputType |-> "summary", aggregations |-> <<Aggregation("amount", "sum")>>]],
     [sql |-> "SELECT amount FROM orders", batchSize |-> 1, maxRows |-> 3,
      request |-> [outputType |-> "json", aggregations |-> <<Aggregation("amount", "count")>>]],
     [sql |-> "SELECT amount FROM orders", batchSize |-> 2, maxRows |-> 3,
      request |-> [outputType |-> "csv", aggregations |-> <<>>]]}

\* query_streamer is called while another call may be under way
RunStart ==
    \E r \in Runs, input \in RunInputs :
        /\ sr[r].run.pc = "idle"
        /\ pq.pc = "idle" /\ qs.pc = "idle" /\ eq.pc = "idle" /\ cc.pc = "idle"
        /\ rw.pc = "idle" /\ gr.pc = "idle"
        /\ sr' = [sr EXCEPT ![r] = RunStarted(input.sql, input.batchSize, input.maxRows,
                                              input.request, uuids + 1)]
        /\ uuids' = uuids + 1
        /\ UNCHANGED <<db, port, files, pq, hist, qs, eq, cc, rw, gr, xq, sqlPool, pools>>

\* a call enters a turn of its loop and waits for executeQuery
RunIssue ==
    \E r \in Runs :
        /\ sr[r].run.pc = "batch"
        /\ sr' = [sr EXCEPT ![r] = RunIssued(RunLocals(r))]
        /\ port' = Append(port, sr'[r].fetch)
        /\ UNCHANGED <<db, files, uuids, pq, hist, qs, eq, cc, rw, gr, xq, sqlPool, pools>>

\* executeQuery settles for a call: the rows are processed, and after the last batch the
\* file is written (or writeFileSync throws) and the response is built
RunReturn ==
    \E r \in Runs :
        /\ sr[r].run.pc = "await"
        /\ \E o \in executeQuery(sr[r].fetch.sql, sr[r].fetch.parameters, db) :
            /\ db' = o.db
            /\ sr' = [sr EXCEPT ![r] = RunReturned(sr[r], o)]
        /\ \E written \in BOOLEAN :
               files' = IF sr'[r].run.pc = "done" /\ ~sr'[r].run.response.isError /\ written
                        THEN (sr'[r].run.uuid :> StreamFile(sr'[r].run, sr'[r].run.aggregationResults))
                                 @@ files
                        ELSE files
        /\ UNCHANGED <<port, uuids, pq, hist, qs, eq, cc, rw, gr, xq, sqlPool, pools>>

(***************************************************************************)
(* get_query_results                                                       *)
(***************************************************************************)

\* get_query_results at rest
GetIdle == [pc |-> "idle", uuid |-> 0, response |-> [isError |-> FALSE]]

\* the answer read from the file data: data.metadata.rowCount, data.results || [] and
\* data.metadata.uuid
GetResponse(data) ==
    [isError |-> FALSE,
     rowCount |-> IF "rowCount" \in DOMAIN data THEN Num(data.rowCount) ELSE Undefined,
     results |-> IF "results" \in DOMAIN data THEN data.results ELSE <<>>,
     uuid |-> data.uuid]

\* get_query_results({uuid}): the directory QUERY_RESULTS_PATH exists; the answer is read
\* from the file uuid.json, and is "not found" when there is no file of that name
GetCall(uuid) ==
    /\ gr.pc = "idle"
    /\ gr' = [pc |-> "done", uuid |-> uuid,
              response |-> IF uuid \in DOMAIN files /\ files[uuid].ext = "json"
                           THEN GetResponse(files[uuid])
                           ELSE ErrorResponse("notFound")]
    /\ UNCHANGED <<db, port, files, uuids, pq, hist, qs, eq, cc, rw, sr, xq, sqlPool, pools>>

\* the caller asks for the results under the uuid that paginated_query or query_streamer
\* returned to it
GetResults ==
    \/ pq.pc = "done" /\ ~pq.response.isError /\ GetCall(pq.response.uuid)
    \/ qs.pc = "done" /\ ~qs.response.isError /\ GetCall(qs.response.uuid)

(***************************************************************************)
(* executeQuery calls that share the connection pool                       *)
(***************************************************************************)

\* the calls in flight at the same time, the default retryCount, and the most
\* ConnectionPool objects created in one behaviour
Calls == 1..2
MaxRetryCount == 3
MaxPools == 3

\* what the calls are made with: a statement that returns rows and one the server
\* refuses, with the default retryCount and with none; the rows play no part here, so
\* the calls are followed on one table
QueryInputs ==
    {[sql |-> "SELECT * FROM orders", retryCount |-> MaxRetryCount],
     [sql |-> "SELECT * FROM nowhere", retryCount |-> MaxRetryCount],
     [sql |-> "SELECT * FROM orders", retryCount |-> 0]}

QueryTable == Orders4

transientErrors == {"ETIMEOUT", "ECONNCLOSED", "ECONNRESET", "ESOCKET"}

\* one executeQuery call with its recursive calls: the statement, the retryCount of the
\* current call and of the first, the passes through the try block, the pool being
\* connected or queried, err.code of the last pass ("" when it returned) and what the
\* call threw ("" when it returned a result)
CallIdle ==
    [pc |-> "idle", sql |-> "", retryCount |-> 0, given |-> 0, attempts |-> 0, pool |-> 0,
     code |-> "", thrown |-> ""]

\* new sql.ConnectionPool(config).connect() before it settles; dropped tells how
\* sqlPool stopped referring to the pool
NewPool == [state |-> "connecting", dropped |-> ""]

RetriesAnyError(code) == TRUE
\* transientErrors.includes(err.code)
IsTransient(code) == code \in transientErrors

\* the catch block: a transient error with retries left waits one second, every other
\* error is thrown to the caller
Caught(x, code) ==
    IF IsTransient(code) /\ x.retryCount > 0
    THEN [x EXCEPT !.pc = "wait", !.code = code]
    ELSE [x EXCEPT !.pc = "done", !.code = code, !.thrown = code]

\* the try block up to its await: sqlPool.request() (a TypeError when sqlPool is
\* null), then request.query(sqlQuery) is sent on that pool; attempts counts the
\* passes, the statements are not recorded in port
Requested(c, x, pool, ps) ==
    /\ sqlPool' = pool
    /\ pools' = ps
    /\ xq' = [xq EXCEPT ![c] =
                 IF pool = 0
                 THEN Caught([x EXCEPT !.attempts = @ + 1, !.pool = 0], "TypeError")
                 ELSE [x EXCEPT !.pc = "query", !.attempts = @ + 1, !.pool = pool]]
    /\ UNCHANGED port

\* initializeDbPool up to its await: a pool is created and starts to connect; sqlPool
\* is assigned when the connection is there
initializeDbPool(c, x, ps) ==
    /\ Len(ps) < MaxPools
    /\ sqlPool' = 0
    /\ pools' = Append(ps, NewPool)
    /\ xq' = [xq EXCEPT ![c] = [x EXCEPT !.pc = "connect", !.pool = Len(ps) + 1]]
    /\ UNCHANGED port

\* ensurePoolConnected up to its first await, and the try block when there is none;
\* pool and ps are sqlPool and the pools as the caller left them
ensurePoolConnected(c, x, pool, ps) ==
    IF pool = 0
    THEN initializeDbPool(c, x, ps)
    ELSE IF ps[pool].state # "connected"
    THEN /\ sqlPool' = pool
         /\ pools' = ps
         /\ xq' = [xq EXCEPT ![c] = [x EXCEPT !.pc = "reconnect", !.pool = pool]]
         /\ UNCHANGED port
    ELSE Requested(c, x, pool, ps)

\* sqlPool = null: the pool it referred to is dropped, by the call whose pass failed on
\* it ("reset") or by another ("overwritten")
Dropped(ps, pool, mine) ==
    IF pool = 0 THEN ps
    ELSE [ps EXCEPT ![pool].dropped = IF pool = mine THEN "reset" ELSE "overwritten"]

\* sqlPool = the pool that connected: a pool another call assigned in between is
\* overwritten
Overwritten(ps, old, new) ==
    IF old = 0 \/ old = new THEN ps ELSE [ps EXCEPT ![old].dropped = "overwritten"]

\* executeQuery(sqlQuery, parameters, retryCount) is called; the calls are numbered as
\* they are made
QueryCall ==
    \E c \in Calls, i \in QueryInputs :
        /\ db = Database(QueryTable)
        /\ xq[c].pc = "idle"
        /\ \A b \in 1..(c - 1) : xq[b].pc # "idle"
        /\ ensurePoolConnected(c, [CallIdle EXCEPT !.sql = i.sql, !.retryCount = i.retryCount,
                                                   !.given = i.retryCount],
                               sqlPool, pools)
        /\ UNCHANGED <<db, files, uuids, pq, hist, qs, eq, cc, rw, gr, sr>>

\* the connect() of initializeDbPool settles: sqlPool = the new pool and the try block
\* starts, or the error leaves executeQuery from outside its try block
PoolConnects ==
    \E c \in Calls, ok \in BOOLEAN :
        /\ xq[c].pc = "connect"
        /\ IF ok
           THEN Requested(c, xq[c], xq[c].pool,
                          Overwritten([pools EXCEPT ![xq[c].pool].state = "connected"],
                                      sqlPool, xq[c].pool))
           ELSE /\ pools' = [pools EXCEPT ![xq[c].pool].state = "failed"]
                /\ xq' = [xq EXCEPT ![c] = [@ EXCEPT !.pc = "done", !.thrown = "connect"]]
                /\ UNCHANGED <<sqlPool, port>>
        /\ UNCHANGED <<db, files, uuids, pq, hist, qs, eq, cc, rw, gr, sr>>

\* the sqlPool.connect() of ensurePoolConnected settles: the try block starts on what
\* sqlPool is by then, or sqlPool = null and initializeDbPool
PoolReconnects ==
    \E c \in Calls, ok \in BOOLEAN :
        /\ xq[c].pc = "reconnect"
        /\ IF ok
           THEN Requested(c, xq[c], sqlPool, [pools EXCEPT ![xq[c].pool].state = "connected"])
           ELSE initializeDbPool(c, xq[c], Dropped(pools, sqlPool, xq[c].pool))
        /\ UNCHANGED <<db, files, uuids, pq, hist, qs, eq, cc, rw, gr, sr>>

\* err.code of a request.query that settles: "" with a result, EREQUEST when the
\* server refuses the statement, a transient error of the connection at any time, and
\* ECONNCLOSED alone on a pool that is closed
QueryCodes(x, ps, database) ==
    IF ps[x.pool].state # "connected"
    THEN {"ECONNCLOSED"}
    ELSE {IF o.err THEN "EREQUEST" ELSE "" : o \in executeQuery(x.sql, NoParameters, database)}
             \cup transientErrors

\* await request.query(sqlQuery) settles: the result is returned, or the catch block
\* runs; ECONNCLOSED leaves the pool closed
QuerySettles ==
    \E c \in Calls :
        /\ xq[c].pc = "query"
        /\ \E code \in QueryCodes(xq[c], pools, db) :
            /\ xq' = [xq EXCEPT ![c] = IF code = ""
                                       THEN [@ EXCEPT !.pc = "done", !.code = "", !.thrown = ""]
                                       ELSE Caught(@, code)]
            /\ pools' = IF code = "ECONNCLOSED"
                        THEN [pools EXCEPT ![xq[c].pool].state = "closed"]
                        ELSE pools
        /\ UNCHANGED <<db, port, files, uuids, pq, hist, qs, eq, cc, rw, gr, sr, sqlPool>>

\* the second of waiting is over: sqlPool = null after ECONNCLOSED and ECONNRESET, then
\* executeQuery(sqlQuery, parameters, retryCount - 1)
RetryTimer ==
    \E c \in Calls :
        /\ xq[c].pc = "wait"
        /\ IF xq[c].code \in {"ECONNCLOSED", "ECONNRESET"}
           THEN ensurePoolConnected(c, [xq[c] EXCEPT !.retryCount = @ - 1], 0,
                                    Dropped(pools, sqlPool, xq[c].pool))
           ELSE ensurePoolConnected(c, [xq[c] EXCEPT !.retryCount = @ - 1], sqlPool, pools)
        /\ UNCHANGED <<db, files, uuids, pq, hist, qs, eq, cc, rw, gr, sr>>

Init ==
    /\ db \in {Database(t) : t \in Tables}
    /\ port = <<>>
    /\ files = [u \in {} |-> 0]
    /\ uuids = 0
    /\ pq = PageIdle
    /\ hist = [first |-> NoCursor, pages |-> <<>>, moves |-> <<>>, before |-> [isError |-> FALSE]]
    /\ qs = StreamIdle
    /\ eq = ExecIdle
    /\ cc = CodecIdle
    /\ rw = RewriteIdle
    /\ gr = GetIdle
    /\ sr = [r \in Runs |-> RunIdle]
    /\ xq = [c \in Calls |-> CallIdle]
    /\ sqlPool = 0
    /\ pools = <<>>

NextPageSpec == FirstPage \/ NextPage \/ PrevPage \/ PageCount \/ PageExecute
NextStreamSpec == StreamStart \/ StreamBatch
NextExecSpec == ExecStart \/ ExecRun
NextCodecSpec == CodecStart \/ CodecDecode
NextExecuteSpec == QueryCall \/ PoolConnects \/ PoolReconnects \/ QuerySettles \/ RetryTimer
NextRunsSpec == RunStart \/ RunIssue \/ RunReturn
NextRepeatSpec == FirstPage \/ AgainPage \/ PageCount \/ PageExecute
NextResultsSpec == FirstPage \/ PageCount \/ PageExecute \/ StreamStart \/ StreamBatch \/ GetResults
Next == NextPageSpec \/ NextStreamSpec \/ NextExecSpec

\* one caller paging through statements with paginated_query
SpecPage == Init /\ [][NextPageSpec]_vars
\* one caller streaming a statement with query_streamer
SpecStream == Init /\ [][NextStreamSpec]_vars
\* The same, and the handler's loop keeps running: an awaited executeQuery settles and the
\* handler goes on. This is weak fairness of StreamBatch, WF_vars(StreamBatch), written
\* out: StreamBatch is enabled exactly when qs.pc = "batch" (request.query has an outcome
\* for every statement, and the turn adds to port).
StreamBatchFair == []<>(qs.pc # "batch") \/ []<><<StreamBatch>>_vars
SpecStreamFair == SpecStream /\ StreamBatchFair
\* cursors encoded and decoded
SpecCodec == Init /\ [][NextCodecSpec]_vars
\* paginateQuery applied to statements, cursors and parameters
SpecRewrite == Init /\ [][RewriteStart]_vars
\* two calls of query_streamer that take turns at their awaits
SpecRuns == Init /\ [][NextRunsSpec]_vars
SpecExecute == Init /\ [][NextExecuteSpec]_vars
\* one caller that makes the same call of paginated_query twice
SpecRepeat == Init /\ [][NextRepeatSpec]_vars
\* one caller of paginated_query or query_streamer that then fetches the stored result
SpecResults == Init /\ [][NextResultsSpec]_vars
\* one caller of any of the three query tools
Spec == Init /\ [][Next]_vars

(***************************************************************************)
(* Properties of paginated_query                                           *)
(***************************************************************************)

\* the pages of the caller's record, one after the other
RECURSIVE Flatten(_)
Flatten(pages) == IF pages = <<>> THEN <<>> ELSE Head(pages) \o Flatten(Tail(pages))

IsPrefix(a, b) == Len(a) <= Len(b) /\ a = SubSeq(b, 1, Len(a))

\* The result sets of sql in the statement's order: the rows the server returns for the
\* statement itself, ordered by field ascending when it has no ORDER BY clause.
ResultSets(sql, field) ==
    LET ordered == IF HasOrderBy(trim(sql)) THEN trim(sql)
                   ELSE trim(sql) \o " ORDER BY " \o field \o " ASC"
    IN {o.recordset : o \in {x \in QueryOutcomes(ordered, NoParameters, db) : ~x.err}}

\* field is a column whose values are numbers, all different
UniqueColumn(field) ==
    /\ field \in ColumnSet
    /\ \A i \in DOMAIN db.rows : db.rows[i][field].t = "num"
    /\ \A i, j \in DOMAIN db.rows : i # j => db.rows[i][field] # db.rows[j][field]

\* field is a column of the rows that sql returns
Returns(sql, field) ==
    LET q == ParseSelect(Tokens(sql, 1)) IN
    q.ok /\ (q.star \/ \E i \in DOMAIN q.cols : q.cols[i] = field)

\* a call of the caller's chain has returned
PageDone == pq.pc = "done" /\ pq.sql \in PageStatements
PageReturned == PageDone /\ ~pq.response.isError

\* the chain cannot go on: the last call failed or reported no nextCursor
ChainEnded == PageDone /\ (pq.response.isError \/ ~CursorGiven(pq.response.pagination.nextCursor))

\* C1 (as claimed): for a statement whose effective cursor field has unique values (and is
\* among the returned columns), the pages fetched from no cursor on by following
\* nextCursor are, one after the other, a prefix of the result set in the statement's
\* order, and once no nextCursor is left they are the whole result set: no row skipped,
\* none returned twice.
C1_PagesCoverResultSet ==
    (/\ PageDone
     /\ ~CursorGiven(hist.first)
     /\ UniqueColumn(EffectiveCursorField(pq.sql, pq.cursorField))
     /\ Returns(pq.sql, EffectiveCursorField(pq.sql, pq.cursorField)))
        => \E rs \in ResultSets(pq.sql, EffectiveCursorField(pq.sql, pq.cursorField)) :
              /\ IsPrefix(Flatten(hist.pages), rs)
              /\ ChainEnded => Flatten(hist.pages) = rs

\* the id column of a row sequence
Ids(rows) == [i \in DOMAIN rows |-> Get(rows[i], "id")]

\* C5 (as claimed): a page that exhausts the result set reports hasMore = false and no
\* nextCursor; with pageSize 2 over ids 1..4 the call with the nextCursor of the first
\* page returns ids 3 and 4, hasMore = false and no nextCursor.
C5_LastPageHasNoMore ==
    /\ (/\ PageDone
        /\ db.rows = Orders4
        /\ pq.sql = "SELECT * FROM orders"
        /\ pq.pageSize = 2
        /\ pq.cursor = EncodeCursor("id", Num(2), ">"))
           => /\ ~pq.response.isError
              /\ Ids(pq.response.results) = <<Num(3), Num(4)>>
              /\ ~pq.response.pagination.hasMore
              /\ ~CursorGiven(pq.response.pagination.nextCursor)
    /\ (/\ PageReturned
        /\ ~CursorGiven(hist.first)
        /\ UniqueColumn(EffectiveCursorField(pq.sql, pq.cursorField))
        /\ Flatten(hist.pages) \in ResultSets(pq.sql, EffectiveCursorField(pq.sql, pq.cursorField)))
           => /\ ~pq.response.pagination.hasMore
              /\ ~CursorGiven(pq.response.pagination.nextCursor)

\* the statement is ordered ascending by field: it has no ORDER BY clause (paginateQuery
\* appends one), or its first ORDER BY item is field ascending
AscendingBy(sql, field) ==
    LET q == ParseSelect(Tokens(sql, 1)) IN
    /\ q.ok
    /\ q.order # <<>> => (q.order[1].field = field /\ ~q.order[1].desc)

\* the cursor object a token decodes to
Decoded(cursor) ==
    [field |-> Member(decodeCursor(cursor), "field"),
     value |-> Member(decodeCursor(cursor), "value"),
     operator |-> Member(decodeCursor(cursor), "operator")]

C7_HasMoreIffFullPage ==
    PageReturned =>
        (pq.response.pagination.hasMore <=> pq.response.pagination.returnedRows >= pq.pageSize)

(***************************************************************************)
(* Properties of query_streamer                                            *)
(***************************************************************************)

StreamRunning == qs.pc \in {"batch", "done"}
StreamDone == qs.pc = "done"
StreamReturned == StreamDone /\ ~qs.response.isError

\* C2 (as claimed): in every state of a streaming run totalProcessedRows <= maxRows, and in
\* json output mode the number of buffered rows is <= maxRows, for every batchSize and
\* maxRows.
C2_RowsBoundedByMaxRows ==
    StreamRunning =>
        /\ qs.totalProcessedRows <= qs.maxRows
        /\ qs.outputType = "json" => Len(qs.allResults) <= qs.maxRows

\* the aggregates of aggregations over rows taken all at once
AggregatesOf(rows, aggregations) ==
    FinalizeAggregations(
        AccumulateBatch(InitAggregations(aggregations, 1, NoAggregationResults),
                        rows, aggregations, 1),
        aggregations, Len(rows), 1)

\* the same number
SameNumber(a, b) == a.k = b.k /\ a.set = b.set /\ a.n * b.d = b.n * a.d

\* C9 (as claimed): over an unchanged result set with a unique cursor field and maxRows at
\* least the size of the set, a streaming run reports for every batchSize the same
\* aggregates: those of the whole result set (amounts 10, 20, 30, 40, 5: sum = 105).
C9_BatchSizeInvariance ==
    (/\ StreamDone
     /\ qs.sql = "SELECT * FROM orders"
     /\ UniqueColumn(EffectiveCursorField(qs.sql, qs.cursorField))
     /\ qs.maxRows >= Len(db.rows))
        => /\ ~qs.response.isError
           /\ \A key \in DOMAIN qs.response.aggregations :
                  SameNumber(qs.response.aggregations[key],
                             AggregatesOf(db.rows, qs.aggregations)[key])
           /\ (db.rows = Orders5 /\ "sum:amount" \in DOMAIN qs.response.aggregations)
                  => qs.response.aggregations["sum:amount"] = AccNumber(105, 1)

\* the numeric values of column field in rows, added up, and their number
RECURSIVE NumericSum(_, _)
NumericSum(rows, field) ==
    IF rows = <<>> THEN 0
    ELSE (IF Get(Head(rows), field).t = "num" THEN Get(Head(rows), field).n ELSE 0)
             + NumericSum(Tail(rows), field)
NumericCount(rows, field) ==
    Cardinality({i \in DOMAIN rows : Get(rows[i], field).t = "num"})

\* C10 (as claimed): the avg slot holds the running sum during the loop, and the reported
\* avg is the sum of the field's numeric values over the processed rows divided by the
\* number of those values, with or without a count aggregation on the same field. (A run
\* of one batch has processed the first totalProcessedRows rows of the result set.)
C10_AvgIsSumOverNumericCount ==
    /\ (qs.pc = "batch" /\ "avg:amount" \in DOMAIN qs.aggregationResults)
           => qs.aggregationResults["avg:amount"] = AccNumber(qs.aggregationResults["avg:amount"].n, 1)
    /\ (/\ StreamReturned
        /\ qs.sql = "SELECT * FROM orders"
        /\ qs.batchCount = 1
        /\ "avg:amount" \in DOMAIN qs.response.aggregations)
           => \A rs \in ResultSets(qs.sql, "id") :
                  LET rows == SubSeq(rs, 1, qs.totalProcessedRows)
                      avg == qs.response.aggregations["avg:amount"]
                  IN NumericCount(rows, "amount") > 0
                         => /\ avg.k = "number"
                            /\ avg.n * NumericCount(rows, "amount")
                                   = NumericSum(rows, "amount") * avg.d

(***************************************************************************)
(* Properties of the three query tools                                     *)
(***************************************************************************)

\* the write keywords that the tools disallow
WriteKeywords == {"drop", "delete", "truncate", "update", "alter"}

\* sql contains a write keyword, in any letter case, whatever follows it
HasWriteKeyword(sql) == \E kw \in WriteKeywords : includes(toLowerCase(sql), kw)

\* the call of a tool, whichever was called
Called == IF pq.pc # "idle" THEN pq ELSE IF qs.pc # "idle" THEN qs ELSE eq
AnyCalled == pq.pc # "idle" \/ qs.pc # "idle" \/ eq.pc # "idle"

\* C3 (as claimed): a call of paginated_query, query_streamer or execute_query whose
\* statement contains drop, delete, truncate, update or alter (any letter case, any
\* character behind the keyword) ends with a validation error, and the execution port is
\* not invoked for the call.
C3_WriteKeywordsRejected ==
    (AnyCalled /\ HasWriteKeyword(Called.sql))
        => /\ port = <<>>
           /\ Called.pc = "done"
           /\ Called.response.isError
           /\ Called.response.kind = "validation"

\* C4 (as claimed): the query tools hand only read-only statements to the database: no
\* statement that modifies data or schema (INSERT, UPDATE, DELETE, MERGE, DROP, TRUNCATE,
\* ALTER) is ever executed.
C4_OnlyReadsExecuted == db.writes = <<>>

(***************************************************************************)
(* Properties of the cursor codec                                          *)
(***************************************************************************)

\* C8: decoding an encoded cursor gives back the field, the value and the operator, for
\* every operator of >, >=, <, <=; generateNextCursor and generatePrevCursor build a token
\* for every row and non-empty field, and it decodes to the field, the row's value for
\* the field, and ">" respectively "<=".
C8_CursorRoundTrip ==
    /\ cc.pc \in {"encoded", "decoded"} =>
           /\ CursorGiven(cc.token) <=> (cc.way = "encode" \/ cc.field # "")
           /\ cc.way = "next" => cc.operator = ">"
           /\ cc.way = "prev" => cc.operator = "<="
    /\ (cc.pc = "decoded" /\ CursorGiven(cc.token)) =>
           /\ cc.parsed.ok /\ cc.parsed.isObj
           /\ DOMAIN cc.parsed.obj = {"field", "value", "operator"}
           /\ Decoded(cc.token)
                  = [field |-> Str(cc.field), value |-> cc.value, operator |-> Str(cc.operator)]

\* C8 witness: a cursor for a field and a value with quotes and backslashes, built by
\* generatePrevCursor, has been decoded to the same field and value and to "<="
C8_Witness ==
    /\ cc.pc = "decoded"
    /\ cc.way = "prev"
    /\ cc.field = "a\"b\\c"
    /\ cc.value = Str("O\"Brien \\ x")
    /\ Member(cc.parsed, "field") = Str(cc.field)
    /\ Member(cc.parsed, "value") = cc.value
    /\ Member(cc.parsed, "operator") = Str("<=")

(***************************************************************************)
(* Properties of a streaming run: failure and termination                  *)
(***************************************************************************)

\* C11 (as claimed): when the execution port fails on batch n > 1 of a streaming run, the
\* response carries the error together with the progress of batches 1..n-1: the rows
\* processed, the batch count and the aggregate values so far.
C11_ErrorCarriesProgress ==
    (/\ StreamDone
     /\ qs.response.isError
     /\ qs.response.kind = "query"
     /\ qs.batchCount > 1)
        => /\ {"totalRows", "batchCount", "aggregations"} \subseteq DOMAIN qs.response
           /\ qs.response.totalRows = qs.totalProcessedRows
           /\ qs.response.aggregations = qs.aggregationResults

\* every fetch of the run so far returned
StreamFetchesReturned == StreamRunning /\ ~(StreamDone /\ qs.response.isError)

\* the run fetches once per batch and at most ceil(maxRows / batchSize) times; it is in
\* the loop only after full batches with totalProcessedRows < maxRows, and it is finished
\* only after a batch of fewer than batchSize rows or with totalProcessedRows >= maxRows
StreamLoopBounded ==
    StreamFetchesReturned =>
        /\ Len(port) = qs.batchCount
        /\ qs.batchCount <= Ceil(qs.maxRows, qs.batchSize)
        /\ (qs.pc = "batch" /\ qs.batchCount > 0) =>
               /\ qs.hasMore
               /\ qs.totalProcessedRows = qs.batchCount * qs.batchSize
               /\ qs.totalProcessedRows < qs.maxRows
        /\ StreamDone =>
               /\ qs.batchCount >= 1
               /\ \/ qs.totalProcessedRows < qs.batchCount * qs.batchSize
                  \/ qs.totalProcessedRows >= qs.maxRows

\* C12: a streaming run reaches Done after at most ceil(maxRows / batchSize) batches, one
\* fetch per batch; it leaves the loop exactly when a batch returned fewer than batchSize
\* rows or totalProcessedRows >= maxRows, and it fetches nothing after it finished.
C12_StreamTerminates ==
    /\ []StreamLoopBounded
    /\ [][StreamDone => port' = port]_vars
    /\ (qs.pc = "batch") ~> StreamDone

\* C12 witness: a run of three full batches of one row ended by maxRows = 3
C12_Witness ==
    /\ StreamReturned
    /\ qs.batchSize = 1
    /\ qs.maxRows = 3
    /\ qs.batchCount = 3
    /\ qs.totalProcessedRows = 3
    /\ Len(port) = 3

(***************************************************************************)
(* Properties of paginateQuery                                             *)
(***************************************************************************)

\* paginateQuery returned, and the cursor block ran to its end for the cursor of the call
RewriteDone == rw.pc = "done"
RewriteUsable == RewriteDone /\ CursorUsable(rw.cursor, decodeCursor(rw.cursor))

\* C13 (as claimed): for a decodable cursor the predicate that paginateQuery adds compares
\* the effective cursor field (the field returned as cursorField, used for ordering) with
\* the decoded value using the decoded operator, also when the field encoded in the
\* cursor differs from the effective field.
C13_PredicateOnEffectiveField ==
    RewriteUsable =>
        /\ includes(rw.result.paginatedSql,
                    " [" \o rw.result.cursorField \o "] "
                        \o TemplateText(Member(decodeCursor(rw.cursor), "operator")) \o " @")
        /\ \E name \in DOMAIN rw.result.parameters \ DOMAIN rw.parameters :
               rw.result.parameters[name] = Member(decodeCursor(rw.cursor), "value")

\* C14 (as claimed): the cursor value is bound under a name that no caller-supplied
\* parameter has, so every caller-supplied parameter keeps its value in the returned map.
C14_CallerParametersKept ==
    RewriteDone =>
        /\ \A name \in DOMAIN rw.parameters :
               /\ name \in DOMAIN rw.result.parameters
               /\ rw.result.parameters[name] = rw.parameters[name]
        /\ RewriteUsable =>
               Cardinality(DOMAIN rw.result.parameters) = Cardinality(DOMAIN rw.parameters) + 1

\* text ends with tail
EndsWith(text, tail) ==
    Len(text) >= Len(tail) /\ From(text, Len(text) - Len(tail) + 1) = tail

\* the statement has a limiting clause: OFFSET or FETCH is one of its words
HasLimitingClause(sql) ==
    \E i \in DOMAIN Tokens(sql, 1) :
        /\ Tokens(sql, 1)[i].k = "w"
        /\ toLowerCase(Tokens(sql, 1)[i].s) \in {"offset", "fetch"}

\* the row-bound clause for pageSize rows
RowBoundClause(pageSize) == " OFFSET 0 ROWS FETCH NEXT " \o ToString(pageSize) \o " ROWS ONLY"

\* C18 (as claimed): for a statement without an ordering clause and an explicit
\* cursorField f the returned statement contains ORDER BY f ASC and ends with the row bound
\* for pageSize rows; a statement without a limiting clause always gets the row bound.
C18_OrderAndRowBound ==
    /\ (RewriteDone /\ ~HasOrderBy(trim(rw.sql)) /\ rw.cursorField # "") =>
           /\ includes(rw.result.paginatedSql, " ORDER BY " \o rw.cursorField \o " ASC")
           /\ EndsWith(rw.result.paginatedSql, RowBoundClause(rw.pageSize))
    /\ (RewriteDone /\ ~HasLimitingClause(rw.sql)) =>
           EndsWith(rw.result.paginatedSql, RowBoundClause(rw.pageSize))

(***************************************************************************)
(* Properties of paginated_query: cursors that come in                     *)
(***************************************************************************)

\* the statement and parameters of the same request made with no cursor
WithoutCursor ==
    paginateQuery(pq.sql, EffectiveCursorField(pq.sql, pq.cursorField), pq.pageSize, NoCursor,
                  pq.parameters, extractDefaultCursorField(pq.sql))

\* the response is the response to outcome o of the request made with no cursor
AnswersWithoutCursor(o, field) ==
    IF o.err THEN pq.response.isError
    ELSE /\ ~pq.response.isError
         /\ pq.response.results = o.recordset
         /\ pq.response.pagination.nextCursor =
                (IF Len(o.recordset) > 0 /\ Len(o.recordset) >= pq.pageSize
                 THEN generateNextCursor(o.recordset[Len(o.recordset)], TRUE, field)
                 ELSE NoCursor)
         /\ pq.response.pagination.hasMore = CursorGiven(pq.response.pagination.nextCursor)
         /\ pq.response.pagination.prevCursor = NoCursor

\* C15 (as claimed): a call with a cursor token that cannot be decoded executes the same
\* statement with the same parameters and returns the same rows, hasMore, nextCursor and
\* prevCursor as the same request made with no cursor.
C15_UndecodableCursorIsNoCursor ==
    (/\ PageDone
     /\ CursorGiven(pq.cursor)
     /\ ~CursorUsable(pq.cursor, decodeCursor(pq.cursor)))
        => /\ port[Len(port)] = PortCall(WithoutCursor.paginatedSql, WithoutCursor.parameters)
           /\ \E o \in executeQuery(WithoutCursor.paginatedSql, WithoutCursor.parameters, db) :
                  AnswersWithoutCursor(o, EffectiveCursorField(pq.sql, pq.cursorField))

\* C16 (as claimed): a page result carries a prevCursor exactly when the request carried a
\* cursor; the prevCursor decodes to {field: effective field, value: that field of the
\* first returned row, operator: "<="}; a request with no cursor gets none.
C16_PrevCursorIffCursor ==
    PageReturned =>
        /\ CursorGiven(pq.response.pagination.prevCursor) <=> CursorGiven(pq.cursor)
        /\ CursorGiven(pq.response.pagination.prevCursor) =>
               /\ pq.response.results # <<>>
               /\ Decoded(pq.response.pagination.prevCursor)
                      = [field |-> Str(pq.response.pagination.cursorField),
                         value |-> Get(pq.response.results[1],
                                       pq.response.pagination.cursorField),
                         operator |-> Str("<=")]

\* the caller's last move, and the one before
LastMove == IF hist.moves = <<>> THEN "" ELSE hist.moves[Len(hist.moves)]
MoveBefore == IF Len(hist.moves) < 2 THEN "" ELSE hist.moves[Len(hist.moves) - 1]

\* C17 (as claimed): going back works. The page k+1 that the caller reached with
\* nextCursor comes with a prevCursor, and the call with that prevCursor returns page k,
\* the page received before page k+1.
C17_PrevCursorGoesBack ==
    /\ (PageDone /\ LastMove = "next" /\ ~CursorGiven(hist.first)) =>
           /\ ~pq.response.isError
           /\ pq.response.results # <<>> =>
                  CursorGiven(pq.response.pagination.prevCursor)
    /\ (PageDone /\ LastMove = "prev" /\ MoveBefore = "next") =>
           /\ ~pq.response.isError
           /\ Len(hist.pages) >= 3
           /\ pq.response.results = hist.pages[Len(hist.pages) - 2]

(***************************************************************************)
(* Properties of the effective cursor field                                *)
(***************************************************************************)

\* a column name that follows a key-naming convention
IdLike(column) == toLowerCase(column) \in {"id", "key", "primary_key", "primarykey"}

\* The fields that the priority order allows for statement sql and argument cursorField:
\* the explicit cursorField; else the first column of the ORDER BY clause of the parsed
\* statement; else an id-like column of its select list; else "id".
ResolvedFields(sql, cursorField) ==
    LET q == ParseSelect(Tokens(sql, 1))
        idLike == IF q.ok /\ ~q.star
                  THEN {q.cols[i] : i \in {j \in DOMAIN q.cols : IdLike(q.cols[j])}}
                  ELSE {}
    IN IF cursorField # "" THEN {cursorField}
       ELSE IF q.ok /\ q.order # <<>> THEN {q.order[1].field}
       ELSE IF idLike # {} THEN idLike
       ELSE {"id"}

\* the statement of the first fetch of a call orders by field: by its own ORDER BY clause,
\* or by the clause ORDER BY field ASC that paginateQuery appended
FirstFetchOrdersBy(sql, fetch, field) ==
    IF HasOrderBy(trim(sql)) THEN StartsAt(fetch.sql, trim(sql), 1)
    ELSE StartsAt(fetch.sql, trim(sql) \o " ORDER BY " \o field \o " ASC", 1)

CountFails == \A o \in executeQuery(CountSql(pq.sql), pq.parameters, db) : o.err

\* the statement and parameters of the page query of the call
PageQuery ==
    paginateQuery(pq.sql, EffectiveCursorField(pq.sql, pq.cursorField), pq.pageSize, pq.cursor,
                  pq.parameters, extractDefaultCursorField(pq.sql))

\* the response is the response to outcome o of the page query alone, with no total count
AnswersPageQuery(o, field) ==
    IF o.err THEN pq.response.isError /\ pq.response.kind = "query"
    ELSE /\ ~pq.response.isError
         /\ pq.response.results = o.recordset
         /\ pq.response.pagination.returnedRows = Len(o.recordset)
         /\ pq.response.pagination.nextCursor =
                (IF Len(o.recordset) > 0 /\ Len(o.recordset) >= pq.pageSize
                 THEN generateNextCursor(o.recordset[Len(o.recordset)], TRUE, field)
                 ELSE NoCursor)
         /\ pq.response.pagination.hasMore = CursorGiven(pq.response.pagination.nextCursor)
         /\ pq.response.pagination.prevCursor =
                (IF Len(o.recordset) > 0 /\ CursorGiven(pq.cursor)
                 THEN generatePrevCursor(o.recordset[1], TRUE, field)
                 ELSE NoCursor)
         /\ pq.response.pagination.totalCount = Null
         /\ pq.response.pagination.estimatedTotalPages = Null

\* C20: when the total count is requested and the count query fails, the call goes on to
\* the page query with totalCount null, and its response is the response to the page
\* query alone: the rows, hasMore and the cursors of that query, totalCount null; the
\* call fails only if the page query fails.
C20_CountFailureIsNotFatal ==
    /\ (pq.pc = "page" /\ pq.includeCount /\ CountFails) =>
           /\ port # <<>>
           /\ port[Len(port)] = PortCall(CountSql(pq.sql), pq.parameters)
           /\ pq.totalCount = Null
           /\ pq.estimatedTotalPages = Null
    /\ (PageDone /\ pq.includeCount /\ CountFails) =>
           /\ Len(port) >= 2
           /\ port[Len(port) - 1] = PortCall(CountSql(pq.sql), pq.parameters)
           /\ port[Len(port)] = PortCall(PageQuery.paginatedSql, PageQuery.parameters)
           /\ \E o \in executeQuery(PageQuery.paginatedSql, PageQuery.parameters, db) :
                  AnswersPageQuery(o, EffectiveCursorField(pq.sql, pq.cursorField))

\* C20 witness: the count query of a statement that ends with a line break failed (its
\* ORDER BY clause stays in the counted subquery), and the page came back all the same
C20_Witness ==
    /\ PageReturned
    /\ pq.includeCount
    /\ CountFails
    /\ pq.sql = "SELECT * FROM orders ORDER BY id\n"
    /\ pq.response.results # <<>>
    /\ CursorGiven(pq.response.pagination.nextCursor)
    /\ pq.response.pagination.totalCount = Null

(***************************************************************************)
(* Properties of paginateQuery: clause order                               *)
(***************************************************************************)

\* the positions of keyword kw among the tokens
KeywordPositions(toks, kw) == {p \in DOMAIN toks : Kw(toks, p, kw)}

\* the positions of the parameter that the cursor predicate compares with
CursorParameterPositions(toks) ==
    {p \in DOMAIN toks : toks[p].k = "p" /\ StartsAt(toks[p].s, "cursor_", 1)}

\* the statement has a filter clause: WHERE is one of its words
HasFilterClause(sql) == KeywordPositions(Tokens(sql, 1), "where") # {}

\* C27 (as claimed): the statement that paginateQuery returns keeps the clause order: the
\* cursor predicate (keyword, [field], comparator, @parameter) stands before ORDER BY and
\* the row bound OFFSET ... FETCH behind it, whether the statement came with an ORDER BY
\* clause or got one appended; the predicate is introduced by WHERE when the statement has
\* no filter clause and by AND when it has one.
C27_ClauseOrderKept ==
    RewriteDone =>
        LET toks == Tokens(rw.result.paginatedSql, 1)
            order == KeywordPositions(toks, "order")
            offset == KeywordPositions(toks, "offset")
            pred == CursorParameterPositions(toks)
        IN /\ order # {}
           /\ \A o \in order, f \in offset : o < f
           /\ RewriteUsable =>
                  /\ Cardinality(pred) = 1
                  /\ \A p \in pred, o \in order : p < o
                  /\ \A p \in pred :
                         /\ p > 3
                         /\ Kw(toks, p - 3, IF HasFilterClause(rw.sql) THEN "and" ELSE "where")


(***************************************************************************)
(* Properties of a streaming run: the cursor between batches, min and max  *)
(***************************************************************************)

\* C25 (as claimed): after every batch that leaves the run in its loop the cursor is the
\* encoding of the last row of that batch (field: the effective cursor field, operator >),
\* so every fetch after the first carries the cursor parameter, and no row is processed
\* twice: the rows processed are never more than the rows of the table, and in json
\* output the rows collected are as many as the rows processed. This is claimed for every
\* result set, also when the effective cursor field is no column of the returned rows.
C25_CursorFollowsLastRow ==
    /\ (qs.pc = "batch" /\ qs.batchCount >= 1) =>
           /\ CursorGiven(qs.cursor)
           /\ Decoded(qs.cursor).field = Str(EffectiveCursorField(qs.sql, qs.cursorField))
           /\ Decoded(qs.cursor).operator = Str(">")
           /\ qs.outputType = "json" =>
                  Decoded(qs.cursor).value
                      = Get(qs.allResults[Len(qs.allResults)],
                            EffectiveCursorField(qs.sql, qs.cursorField))
    /\ StreamRunning =>
           /\ \A i \in 2..Len(port) : port[i].parameters # NoParameters
           /\ qs.totalProcessedRows <= Len(db.rows)
           /\ qs.outputType = "json" => Len(qs.allResults) = qs.totalProcessedRows

\* the numeric values of column field in rows
NumericValues(rows, field) ==
    {Get(rows[i], field).n : i \in {j \in DOMAIN rows : Get(rows[j], field).t = "num"}}

\* C26 (as claimed): the reported max (min) of a field is the largest (smallest) numeric
\* value of the field over the processed rows whenever one of them has a numeric value,
\* for positive, zero and negative values. (A run of one batch has processed the first
\* totalProcessedRows rows of the result set.)
C26_ExtremaOfProcessedRows ==
    (/\ StreamReturned
     /\ qs.sql = "SELECT * FROM orders"
     /\ qs.batchCount = 1
     /\ {"max:amount", "min:amount"} \subseteq DOMAIN qs.response.aggregations)
        => \A rs \in ResultSets(qs.sql, "id") :
               LET values == NumericValues(SubSeq(rs, 1, qs.totalProcessedRows), "amount")
               IN values # {}
                      => /\ qs.response.aggregations["max:amount"] = AccNumber(Greatest(values), 1)
                         /\ qs.response.aggregations["min:amount"] = AccNumber(Least(values), 1)

(***************************************************************************)
(* Properties of a streaming run: the result file                          *)
(***************************************************************************)

\* the run returned its summary and its file was not written
StreamSaveFailed == StreamReturned /\ qs.uuid \notin DOMAIN files

\* C21 (as claimed): when writing the file of a streaming run fails, the result of the run
\* shows it: the response differs from the response of the run whose file was written
\* and is no query error, and its summary carries the aggregation results as they were
\* computed.
C21_SinkErrorSurfaced ==
    StreamSaveFailed =>
        /\ qs.response # StreamResponse(qs, qs.aggregationResults)
        /\ ~qs.response.isError
        /\ qs.response.aggregations = qs.aggregationResults

(***************************************************************************)
(* Properties of the stored results                                        *)
(***************************************************************************)

\* C28 (as claimed): every uuid that paginated_query or query_streamer returns names a
\* stored result: get_query_results with that uuid does not answer "not found" but
\* returns the rows of that call, for every outcome of the call (no rows, json, csv or
\* summary output).
C28_ReturnedUuidIsStored ==
    gr.pc = "done" =>
        /\ ~gr.response.isError
        /\ gr.response.uuid = gr.uuid
        /\ pq.pc = "done" =>
               /\ gr.response.results = pq.response.results
               /\ gr.response.rowCount = Num(pq.response.rowCount)
        /\ (qs.pc = "done" /\ qs.outputType = "json") =>
               gr.response.results = qs.allResults

(***************************************************************************)
(* Properties of paginated_query: the same call twice                      *)
(***************************************************************************)

\* C24 (as claimed): a call of paginated_query repeated with the same sql, cursor,
\* pageSize, cursorField and parameters over unchanged data returns what the call returned
\* before: the same rows, the same hasMore, the same nextCursor and prevCursor.
C24_SameCallSameResult ==
    (PageDone /\ hist.moves = <<"first", "again">>) =>
        /\ ~pq.response.isError
        /\ pq.response.results = hist.before.results
        /\ pq.response.pagination.hasMore = hist.before.pagination.hasMore
        /\ pq.response.pagination.nextCursor = hist.before.pagination.nextCursor
        /\ pq.response.pagination.prevCursor = hist.before.pagination.prevCursor

(***************************************************************************)
(* Properties of query_streamer calls that run at the same time            *)
(***************************************************************************)

\* a call has at most one fetch under way, and has one exactly while it waits for it
RunFetchesOneAtATime ==
    \A r \in Runs :
        /\ sr[r].outstanding \in {0, 1}
        /\ sr[r].outstanding = 1 <=> sr[r].run.pc = "await"

\* a step in which call r hands a statement to executeQuery
RunIssues(r) == sr'[r].run.batchCount = sr[r].run.batchCount + 1

\* C22: within one streaming run the fetch of batch n+1 is issued only after the fetch of
\* batch n returned and its rows were accumulated (n full batches are counted in
\* totalProcessedRows), and never are two fetches of the run under way; the fetches of
\* all runs are as many as their batches.
C22_FetchesSequential ==
    /\ []RunFetchesOneAtATime
    /\ [](Len(port) = sr[1].run.batchCount + sr[2].run.batchCount)
    /\ [][\A r \in Runs :
              RunIssues(r) => /\ sr[r].outstanding = 0
                              /\ sr'[r].outstanding = 1
                              /\ sr[r].run.totalProcessedRows
                                     = sr[r].run.batchCount * sr[r].run.batchSize]_vars

\* C22 witness: a call made three batches of one row one after the other and finished,
\* while the other call made batches too
C22_Witness ==
    /\ sr[1].run.pc = "done"
    /\ ~sr[1].run.response.isError
    /\ sr[1].run.batchCount = 3
    /\ sr[1].run.totalProcessedRows = 3
    /\ sr[1].outstanding = 0
    /\ sr[2].run.batchCount >= 1
    /\ Len(port) = 3 + sr[2].run.batchCount

\* all that a call goes through from e when it runs alone on database
RECURSIVE AloneFrom(_, _)
AloneFrom(e, database) ==
    {e} \cup
        (IF e.run.pc = "batch" THEN AloneFrom(RunIssued(e), database)
         ELSE IF e.run.pc = "await"
         THEN UNION {AloneFrom(RunReturned(e, o), o.db) :
                         o \in executeQuery(e.fetch.sql, e.fetch.parameters, database)}
         ELSE {})

\* the same call as e (arguments and uuid) run alone
RunAlone(e) ==
    AloneFrom(RunStarted(e.run.sql, e.run.batchSize, e.run.maxRows,
                         [outputType |-> e.run.outputType, aggregations |-> e.run.aggregations],
                         e.run.uuid),
              db)

\* what a step of a call alone makes of e on database
AloneNext(e, database) ==
    IF e.run.pc = "batch" THEN {RunIssued(e)}
    ELSE IF e.run.pc = "await"
    THEN {RunReturned(e, o) : o \in executeQuery(e.fetch.sql, e.fetch.parameters, database)}
    ELSE {}

\* both calls were made and have returned
RunsDone == \A r \in Runs : sr[r].run.pc = "done"

CallEnded(c) == xq[c].pc = "done" /\ xq[c].thrown # "connect"

\* one step of call c from a pending request.query: the result ends the call, a
\* transient error with retries left waits for the next pass, every other error is
\* thrown as it is with no further pass
SettledAsClaimed(c) ==
    \/ /\ xq'[c].code = ""
       /\ xq'[c].pc = "done" /\ xq'[c].thrown = ""
    \/ /\ xq'[c].code \in transientErrors /\ xq[c].retryCount > 0
       /\ xq'[c].pc = "wait"
    \/ /\ xq'[c].code \in transientErrors /\ xq[c].retryCount = 0
       /\ xq'[c].pc = "done" /\ xq'[c].thrown = xq'[c].code
    \/ /\ xq'[c].code \notin transientErrors \cup {""}
       /\ xq'[c].pc = "done" /\ xq'[c].thrown = xq'[c].code

\* C29: executeQuery runs its statement again only after a pass that failed with
\* ETIMEOUT, ECONNCLOSED, ECONNRESET or ESOCKET; it makes at most 1 + retryCount passes
\* (4 with the default) and throws the error of the last one when all are used up; an
\* error with another code is thrown at once with no retry, and a pass that returns
\* ends the call with no further pass
C29_RetryOnlyTransient ==
    /\ [](\A c \in Calls :
              /\ xq[c].attempts <= 1 + xq[c].given
              /\ xq[c].attempts + xq[c].retryCount <= 1 + xq[c].given
              /\ xq[c].pc = "wait" => xq[c].code \in transientErrors
              /\ CallEnded(c) =>
                     /\ xq[c].thrown = xq[c].code
                     /\ xq[c].thrown \in transientErrors => xq[c].attempts = 1 + xq[c].given)
    /\ [][\A c \in Calls :
              /\ (xq'[c].attempts # xq[c].attempts /\ xq[c].attempts >= 1)
                     => /\ xq[c].code \in transientErrors
                        /\ xq'[c].attempts = xq[c].attempts + 1
                        /\ xq'[c].attempts + xq'[c].retryCount = 1 + xq[c].given
              /\ (xq[c].pc = "query" /\ xq'[c] # xq[c]) => SettledAsClaimed(c)
              /\ xq[c].pc = "done" => xq'[c] = xq[c]]_vars

\* a call with the default retryCount has made its four passes and thrown the
\* ETIMEOUT of the last one, and another has thrown EREQUEST after its first pass with
\* its three retries unused
C29_Witness ==
    \E c, d \in Calls :
        /\ xq[c].pc = "done" /\ xq[c].given = MaxRetryCount /\ xq[c].attempts = 1 + MaxRetryCount
        /\ xq[c].thrown = "ETIMEOUT"
        /\ xq[d].pc = "done" /\ xq[d].given = MaxRetryCount /\ xq[d].attempts = 1
        /\ xq[d].thrown = "EREQUEST"

(***************************************************************************)
(* C30: one connection pool for the calls that find none                   *)
(***************************************************************************)

\* the pools whose first connect() is in flight: the initializations under way
Initializing == {p \in DOMAIN pools : pools[p].state = "connecting"}

\* C30: while executeQuery calls run at the same time, at most one initialization is
\* under way and none while sqlPool refers to a pool, and no pool that one call
\* assigned is replaced by another call that did not fail on it
C30_OnePoolForAll ==
    /\ Cardinality(Initializing) <= 1
    /\ sqlPool # 0 => Initializing = {}
    /\ \A p \in DOMAIN pools : pools[p].dropped # "overwritten"

=============================================================================
